---- MODULE Spec2Model ----
(***************************************************************************)
(* A model of the nixpkgs review bot: the backend worker loop              *)
(* (nixbot_backend/backend.py), the publish gate                           *)
(* (nixbot_backend/block_github_comment.py), the event watcher             *)
(* (nixbot_frontend/nixpkgs.py) and the dispatcher                         *)
(* (nixbot_frontend/frontend.py).                                          *)
(*                                                                         *)
(* Each component has its own specification over the shared variables:     *)
(*   Spec         the worker pool of one architecture and its queue        *)
(*   GateSpec     is_blocked applied to every bounded input                *)
(*   WatcherSpec  aiter_nixpkgs_events                                     *)
(*   DispatchSpec the main loop of execute                                 *)
(* The variables of the other components keep their initial value.         *)
(***************************************************************************)
EXTENDS Integers, Sequences, FiniteSets, TLC

VARIABLES
    \* ---- backend worker pool (backend.py) ----
    now,               \* time.time(), in minutes
    msg_status,        \* broker: message id -> "unsent" | "queued" | "inflight" | "deleted"
    msg_body,          \* broker: message id -> body put on the wire
    dry_run,           \* args.dry_run after main lines 282-284 (one deployment, one command line)
    database_url,      \* TRUE when args.database_url is not None
    seed_prs,          \* worker -> the seeds `source` has not yielded yet
    pc,                \* worker -> position in main / iter_sqs / build_pr
    last_sqs_message,  \* worker -> iter_sqs's local (NoTime before iter_sqs runs)
    cur,               \* worker -> the msg the for loop of main is working on
    last_poll,         \* worker -> what the last get_from_sqs round did (seq: rounds modulo 2)
    idle_since,        \* worker -> time of the last non-empty poll, or of loop start
    job,               \* worker -> outcome of build_pr: sh()'s return, the report files, the two sinks
    receives,          \* message id -> number of times the broker handed it out
    deletes,           \* message id -> number of m.delete() calls
    builds,            \* message id -> number of build_pr calls for it
    \* ---- publish gate (block_github_comment.py) ----
    gate_in,           \* the inputs is_blocked reads
    gate_out,          \* what is_blocked returned
    \* ---- event watcher (nixpkgs.py) ----
    watcher_pc,        \* "poll" | "sleep" | "dead"
    req_headers,       \* the conditional-request headers of the next poll
    prv_events,        \* the stored window (none before the first 200)
    last_resp,         \* status and headers of the response of the last poll
    yielded,           \* the events yielded in the last poll, in order
    sleep_time,        \* poll_interval of the last poll
    pages,             \* the json bodies of the last two 200 responses, oldest first
    yielded_before,    \* the ids yielded in earlier rounds
    startup_held,      \* the ids of the first page that every page since has held
    non200_run,        \* the non-200 responses in a row up to the last 200 or since it
    \* ---- dispatcher (frontend.py) ----
    dry,               \* execute's dry
    conn,              \* TRUE when execute's database_url is not None
    dispatch_pc,       \* "setup" | "loop" | "dead"
    sqs_queues,        \* none in dry mode, else system -> the send_message calls made
    dispatched_rows,   \* rows of nixpkgs_review_dispatched, in insertion order
    error_log,         \* number of "SQS Response" errors logged
    last_dispatch,     \* what the last iteration of the main loop did
    \* ---- evaluation resolver (nixpkgs.py, get_ofborg_eval) ----
    res_pc,            \* "fetch" | "sleep" | "returned"
    res_now,           \* time.time(), in seconds
    timeout_deadline,  \* get_ofborg_eval's local
    res_result,        \* the second component of the returned pair
    res_seen,          \* what the last iteration fetched, and when
    \* ---- fan-out of the resolutions (frontend.py, execute) ----
    task_state,        \* event (by arrival number) -> "none" | "polling" | "resolved" | "dispatched"
    task_source,       \* event -> the source that produced it
    task_polls,        \* event -> iterations its get_ofborg_eval has slept through
    completion_order,  \* the events in the order their resolutions returned
    dispatch_order,    \* the events in the order the main loop took them
    \* ---- the two sinks of build_pr (backend.py) ----
    sink_in,           \* the files the build left, and whether S3 takes the upload
    sink_out,          \* what upload_s3 and upload_postgres did
    \* ---- one job: sh, build_pr and the for loop of main (backend.py) ----
    sh_pc,             \* "loop" | "returned" | "uploaded" | "next" | "raised"
    sh_elapsed,        \* time.time() - start_time, in tenths of a second
    proc,              \* the build subprocess: when it exits, with what, whether it was killed
    sh_ret,            \* what sh returned
    pruned,            \* TRUE once `git worktree prune` ran
    \* ---- publishers (post_build_hook.py main, utils.py) ----
    pub,               \* per publisher: where main is, its PR, the uploaded flag
    locks,             \* the lock table: lock key -> holder, NoHolder when free
    \* ---- local submission endpoint (server.py) ----
    srv,               \* the asyncio queue, the state of aiter_server_events, requests served
    srv_last           \* the last request, its answer, what it put, the last event yielded

worker_vars == <<now, msg_status, msg_body, dry_run, database_url, seed_prs, pc, last_sqs_message,
                 cur, last_poll, idle_since, job, receives, deletes, builds>>
gate_vars == <<gate_in, gate_out>>
watcher_vars == <<watcher_pc, req_headers, prv_events, last_resp, yielded, sleep_time, pages,
                  yielded_before, startup_held, non200_run>>
dispatch_vars == <<dry, conn, dispatch_pc, sqs_queues, dispatched_rows, error_log, last_dispatch>>
resolve_vars == <<res_pc, res_now, timeout_deadline, res_result, res_seen>>
fanout_vars == <<task_state, task_source, task_polls, completion_order, dispatch_order>>
sink_vars == <<sink_in, sink_out>>
sh_vars == <<sh_pc, sh_elapsed, proc, sh_ret, pruned>>
pub_vars == <<pub, locks>>
srv_vars == <<srv, srv_last>>
vars == <<worker_vars, gate_vars, watcher_vars, dispatch_vars, resolve_vars, fanout_vars,
          sink_vars, sh_vars, pub_vars, srv_vars>>

None == "None"

(***************************************************************************)
(* Bounds                                                                  *)
(***************************************************************************)
NumWorkers == 2
MaxMsgs == 1
MaxSeeds == 1
MaxTime == 25
MaxPr == 1
TickLen == 5
MaxJournal == 1
MaxComments == 1
MaxBuilt == 2
MaxFailed == 1
MaxTimedOut == 1
MaxId == 3
MaxVer == 1
MaxPage == 2
MaxLines == 2
MaxDispatch == 2
MaxStatuses == 2
FetchTime == 300
MaxEvents == 3
MaxPolls == 2
MaxReportList == 2
MaxJump == 5
NumPublishers == 3
MaxKeys == 2
MaxSubmit == 2
MaxRequests == 3

Workers == 1..NumWorkers
Msgs == 1..MaxMsgs
SeedPr == 9
SeedLists == {s \in {<<>>, <<SeedPr>>, <<SeedPr, SeedPr + 1>>} : Len(s) <= MaxSeeds}

(***************************************************************************)
(* backend.py                                                              *)
(***************************************************************************)
\* line 28: timedelta(minutes=15), in minutes like the clock
IDLE_CUTOFF == 15
NoTime == -1
NoMsg == 0

\* A decodable body is the json of an SQSMessage as frontend.py lines 138-143 build
\* it; anything else makes json.loads raise.
Bodies == [ok : {TRUE}, pr : 1..MaxPr, ofborg_url : {"gist"}]
            \cup [ok : {FALSE}, pr : {0}, ofborg_url : {None}]
NoBody == [ok |-> FALSE, pr |-> 0, ofborg_url |-> None]
NoJob == [pr |-> 0, ofborg_url |-> None, msg |-> NoMsg]
NoPoll == [seq |-> 0, count |-> 0, deprovisioned |-> FALSE]
NoResult == [returncode |-> 0, report_md |-> FALSE, report_json |-> FALSE,
             s3 |-> "none", row |-> "none", ran |-> {}]

\* The workers started with --seed-prs s.
WorkerStart(s) ==
    /\ now = 0
    /\ msg_status = [m \in Msgs |-> "unsent"]
    /\ msg_body = [m \in Msgs |-> NoBody]
    /\ dry_run \in BOOLEAN
    /\ database_url \in BOOLEAN
    /\ seed_prs = [w \in Workers |-> s]
    /\ pc = [w \in Workers |-> "source"]
    /\ last_sqs_message = [w \in Workers |-> NoTime]
    /\ cur = [w \in Workers |-> NoJob]
    /\ last_poll = [w \in Workers |-> NoPoll]
    /\ idle_since = [w \in Workers |-> NoTime]
    /\ job = [w \in Workers |-> NoResult]
    /\ receives = [m \in Msgs |-> 0]
    /\ deletes = [m \in Msgs |-> 0]
    /\ builds = [m \in Msgs |-> 0]

WorkerInit == \E s \in SeedLists : WorkerStart(s)

\* The clock advances.
Tick ==
    /\ now + TickLen <= MaxTime
    /\ now' = now + TickLen
    /\ UNCHANGED <<msg_status, msg_body, dry_run, database_url, seed_prs, pc, last_sqs_message, cur,
                   last_poll, idle_since, job, receives, deletes, builds>>

\* The frontend (or anyone) puts a message on the architecture's queue.
SendMessage(m, b) ==
    /\ msg_status[m] = "unsent"
    /\ msg_status' = [msg_status EXCEPT ![m] = "queued"]
    /\ msg_body' = [msg_body EXCEPT ![m] = b]
    /\ UNCHANGED <<now, dry_run, database_url, seed_prs, pc, last_sqs_message, cur, last_poll,
                   idle_since, job, receives, deletes, builds>>

\* Variant: the seeds are taken from the end of the list.
YieldSeed_LastFirst(w) ==
    /\ pc[w] = "source"
    /\ seed_prs[w] # <<>>
    /\ cur' = [cur EXCEPT ![w] = [pr |-> seed_prs[w][Len(seed_prs[w])], ofborg_url |-> None,
                                  msg |-> NoMsg]]
    /\ seed_prs' = [seed_prs EXCEPT ![w] = SubSeq(seed_prs[w], 1, Len(seed_prs[w]) - 1)]
    /\ pc' = [pc EXCEPT ![w] = "build"]
    /\ UNCHANGED <<now, msg_status, msg_body, dry_run, database_url, last_sqs_message,
                   last_poll, idle_since, job, receives, deletes, builds>>

\* source(), lines 290-291: the next seed is yielded with no evaluation url.
YieldSeed(w) ==
    /\ pc[w] = "source"
    /\ seed_prs[w] # <<>>
    /\ cur' = [cur EXCEPT ![w] = [pr |-> Head(seed_prs[w]), ofborg_url |-> None, msg |-> NoMsg]]
    /\ seed_prs' = [seed_prs EXCEPT ![w] = Tail(seed_prs[w])]
    /\ pc' = [pc EXCEPT ![w] = "build"]
    /\ UNCHANGED <<now, msg_status, msg_body, dry_run, database_url, last_sqs_message,
                   last_poll, idle_since, job, receives, deletes, builds>>

\* source(), lines 292-293, and main line 307: in dry-run the generator returns.
SourceReturn(w) ==
    /\ pc[w] = "source"
    /\ seed_prs[w] = <<>>
    /\ dry_run
    /\ pc' = [pc EXCEPT ![w] = "finished"]
    /\ UNCHANGED <<now, msg_status, msg_body, dry_run, database_url, seed_prs,
                   last_sqs_message, cur, last_poll, idle_since, job, receives,
                   deletes, builds>>

\* source() line 294 and iter_sqs line 241: the worker loop starts its idle clock.
StartIterSqs(w) ==
    /\ pc[w] = "source"
    /\ seed_prs[w] = <<>>
    /\ ~dry_run
    /\ last_sqs_message' = [last_sqs_message EXCEPT ![w] = now]
    /\ idle_since' = [idle_since EXCEPT ![w] = now]
    /\ pc' = [pc EXCEPT ![w] = "poll"]
    /\ UNCHANGED <<now, msg_status, msg_body, dry_run, database_url, seed_prs, cur,
                   last_poll, job, receives, deletes, builds>>

\* get_from_sqs may hand out a message that is visible: queued, or received
\* earlier and not deleted before its visibility window ended.
Receivable(m) == msg_status[m] \in {"queued", "inflight"}

\* Variant: the cutoff compared with >= instead of >.
ShouldDeprovision_AtCutoff(count, t, last) ==
    /\ count = 0
    /\ last # NoTime
    /\ t - last >= IDLE_CUTOFF

\* iter_sqs lines 248-252: the condition guarding deprovision_backend().
ShouldDeprovision(count, t, last) ==
    /\ count = 0
    /\ last # NoTime
    /\ t - last > IDLE_CUTOFF

\* Variant: every poll resets the idle clock.
LastSqsMessageAfter_EveryPoll(count, t, last) == t

\* iter_sqs lines 245-246: the idle clock after a poll that returned count messages.
LastSqsMessageAfter(count, t, last) == IF count > 0 THEN t ELSE last

\* Variant: m.delete() left for after the build, the message stays in flight.
StatusAfterReceive_NoDelete(ok) == "inflight"

\* Variant: m.delete() only after json.loads returned.
StatusAfterReceive_DeleteIfDecoded(ok) == IF ok THEN "deleted" ELSE "inflight"

\* iter_sqs lines 259-267: the status of a received message when the try/finally
\* statement is left (m.delete() runs whether or not json.loads raised).
StatusAfterReceive(ok) == "deleted"

\* Variant: the queue is also polled while a build is supervised.
PollEmpty_WhileBuilding(w, outcome) ==
    /\ pc[w] \in {"poll", "supervise"}
    /\ LET last == LastSqsMessageAfter(0, now, last_sqs_message[w])
           dep == ShouldDeprovision(0, now, last)
       IN  /\ last_sqs_message' = [last_sqs_message EXCEPT ![w] = last]
           /\ last_poll' = [last_poll EXCEPT ![w] =
                  [seq |-> 1 - @.seq, count |-> 0, deprovisioned |-> dep]]
           /\ pc' = [pc EXCEPT ![w] = IF dep /\ outcome = "error" THEN "crashed" ELSE @]
    /\ UNCHANGED <<now, msg_status, msg_body, dry_run, database_url, seed_prs, cur,
                   idle_since, job, receives, deletes, builds>>

\* iter_sqs lines 243-256 when get_from_sqs returns []. deprovision_backend
\* raises when the subprocess fails (check=True) or there is no ec2 metadata.
PollEmpty(w, outcome) ==
    /\ pc[w] = "poll"
    /\ LET last == LastSqsMessageAfter(0, now, last_sqs_message[w])
           dep == ShouldDeprovision(0, now, last)
       IN  /\ last_sqs_message' = [last_sqs_message EXCEPT ![w] = last]
           /\ last_poll' = [last_poll EXCEPT ![w] =
                  [seq |-> 1 - @.seq, count |-> 0, deprovisioned |-> dep]]
           /\ pc' = [pc EXCEPT ![w] = IF dep /\ outcome = "error" THEN "crashed" ELSE "poll"]
    /\ UNCHANGED <<now, msg_status, msg_body, dry_run, database_url, seed_prs, cur,
                   idle_since, job, receives, deletes, builds>>

\* iter_sqs lines 243-271 when get_from_sqs returns [m]: the clock is reset, the
\* body is decoded, the message is deleted and the body is yielded to main.
PollMessage(w, m) ==
    /\ pc[w] = "poll"
    /\ Receivable(m)
    /\ LET last == LastSqsMessageAfter(1, now, last_sqs_message[w])
           dep == ShouldDeprovision(1, now, last)
           ok == msg_body[m].ok
           st == StatusAfterReceive(ok)
       IN  /\ last_sqs_message' = [last_sqs_message EXCEPT ![w] = last]
           /\ last_poll' = [last_poll EXCEPT ![w] =
                  [seq |-> 1 - @.seq, count |-> 1, deprovisioned |-> dep]]
           /\ receives' = [receives EXCEPT ![m] = @ + 1]
           /\ msg_status' = [msg_status EXCEPT ![m] = st]
           /\ msg_body' = [msg_body EXCEPT ![m] = IF st = "deleted" THEN NoBody ELSE @]
           /\ deletes' = [deletes EXCEPT ![m] = IF st = "deleted" THEN @ + 1 ELSE @]
           /\ cur' = [cur EXCEPT ![w] =
                  IF ok THEN [pr |-> msg_body[m].pr, ofborg_url |-> msg_body[m].ofborg_url,
                              msg |-> m]
                  ELSE @]
           /\ pc' = [pc EXCEPT ![w] = IF ok THEN "build" ELSE "crashed"]
    /\ idle_since' = [idle_since EXCEPT ![w] = now]
    /\ UNCHANGED <<now, dry_run, database_url, seed_prs, job, builds>>

\* build_pr lines 87-129: stale state is purged and the build tool is started.
StartBuild(w) ==
    /\ pc[w] = "build"
    /\ builds' = [m \in Msgs |-> IF m = cur[w].msg THEN builds[m] + 1 ELSE builds[m]]
    /\ pc' = [pc EXCEPT ![w] = "supervise"]
    /\ UNCHANGED <<now, msg_status, msg_body, dry_run, database_url, seed_prs,
                   last_sqs_message, cur, last_poll, idle_since, job, receives,
                   deletes>>

\* upload_postgres lines 146-165: no row without a database url, else the state
\* of the row depends on whether report.json could be opened.
RowState(report_json) ==
    IF ~database_url THEN "none"
    ELSE IF report_json THEN "success" ELSE "crashed"

\* Variant: the bucket is written in dry-run mode too.
S3State_IgnoreDryRun(report_md) == IF ~report_md THEN "skipped" ELSE "uploaded"

\* upload_s3 lines 202-217: skipped when report.md is missing; the bucket is
\* written unless NIXPKGS_REVIEW_DRY_RUN is set (main lines 286-287).
S3State(report_md) ==
    IF ~report_md THEN "skipped"
    ELSE IF dry_run THEN "dry" ELSE "uploaded"

\* upload_s3 line 216: s3.upload_file raises when the upload fails (s3_ok false).
S3Outcome(report_md, s3_ok) ==
    IF S3State(report_md) = "uploaded" /\ ~s3_ok THEN "failed" ELSE S3State(report_md)

\* build_pr lines 142-143: upload_s3, then upload_postgres; an exception of
\* the first leaves build_pr before the second is called.
SinksRun(s3) == IF s3 = "failed" THEN {"upload_s3"} ELSE {"upload_s3", "upload_postgres"}

\* sh lines 61-71 and build_pr lines 139-143: the subprocess exits with rc, or
\* the overall timeout expires and sh returns -1; md and js tell which report
\* files the build left. build_pr ignores the return code and runs upload_s3,
\* then upload_postgres; nothing in build_pr or main catches what they raise.
ReturnCodes == {0, 1, -1}

\* Variant: a return code other than 0 makes the row "crashed".
BuildReturn_ByExitCode(w, rc, md, js, s3_ok) ==
    /\ pc[w] = "supervise"
    /\ LET s3 == S3Outcome(md, s3_ok)
       IN  /\ job' = [job EXCEPT ![w] =
                  [returncode |-> rc, report_md |-> md, report_json |-> js,
                   s3 |-> s3,
                   row |-> IF "upload_postgres" \in SinksRun(s3)
                           THEN RowState(js /\ rc = 0) ELSE "none",
                   ran |-> SinksRun(s3)]]
           /\ pc' = [pc EXCEPT ![w] = IF s3 = "failed" THEN "crashed" ELSE "gc"]
    /\ UNCHANGED <<now, msg_status, msg_body, dry_run, database_url, seed_prs,
                   last_sqs_message, cur, last_poll, idle_since, receives, deletes,
                   builds>>

BuildReturn(w, rc, md, js, s3_ok) ==
    /\ pc[w] = "supervise"
    /\ LET s3 == S3Outcome(md, s3_ok)
       IN  /\ job' = [job EXCEPT ![w] =
                  [returncode |-> rc, report_md |-> md, report_json |-> js,
                   s3 |-> s3,
                   row |-> IF "upload_postgres" \in SinksRun(s3) THEN RowState(js) ELSE "none",
                   ran |-> SinksRun(s3)]]
           /\ pc' = [pc EXCEPT ![w] = IF s3 = "failed" THEN "crashed" ELSE "gc"]
    /\ UNCHANGED <<now, msg_status, msg_body, dry_run, database_url, seed_prs,
                   last_sqs_message, cur, last_poll, idle_since, receives, deletes,
                   builds>>

\* report.json: a json object whose values are lists of attribute names (one
\* per category), the proposal number and the hammer text (or null). A value
\* carries whether it is a list, since upload_postgres asks isinstance(v, list).
ReportAttrs == {"hello", "gcc"}
AttrLists == UNION {[1..n -> ReportAttrs] : n \in 0..MaxReportList}
ListValue(l) == [list |-> TRUE, v |-> l]
ScalarValue(x) == [list |-> FALSE, v |-> x]
Reports ==
    {[k \in {"built", "failed", "pr", "hammer_report"} |->
         CASE k = "built" -> ListValue(b)
           [] k = "failed" -> ListValue(f)
           [] k = "pr" -> ScalarValue(SeedPr)
           [] k = "hammer_report" -> ScalarValue(h)] :
        b \in AttrLists, f \in AttrLists, h \in {None, "suggestions"}}
MissingFile == [exists |-> FALSE, content |-> <<>>]
ReportFiles == {MissingFile} \cup {[exists |-> TRUE, content |-> r] : r \in Reports}

\* Variant: the hammer text is stored with the counts.
Summarize_KeepHammer(report) ==
    [k \in DOMAIN report |-> IF report[k].list THEN Len(report[k].v) ELSE report[k].v]

\* upload_postgres lines 154-160: the dict that is dumped into the row
Summarize(report) ==
    [k \in DOMAIN report \ {"hammer_report"} |->
        IF report[k].list THEN Len(report[k].v) ELSE report[k].v]

NoRow == [state |-> "none", report |-> None]
\* upload_postgres lines 146-199: the row that is inserted, if any
FinishedRow(file) ==
    IF RowState(file.exists) = "none" THEN NoRow
    ELSE IF file.exists
         THEN [state |-> RowState(TRUE), report |-> Summarize(file.content)]
         ELSE [state |-> RowState(FALSE), report |-> "null"]

SinkInputs == [report_md : BOOLEAN, report_json : ReportFiles, s3_ok : BOOLEAN]
NoSinks == [s3 |-> "none", row |-> NoRow, ran |-> {}, raised |-> FALSE]

SinkInit ==
    /\ dry_run \in BOOLEAN
    /\ database_url \in BOOLEAN
    /\ sink_in \in SinkInputs
    /\ sink_out = NoSinks

\* build_pr lines 142-143 on the files of sink_in: upload_s3, then
\* upload_postgres unless upload_s3 raised.
RunSinks ==
    /\ sink_out = NoSinks
    /\ LET s3 == S3Outcome(sink_in.report_md, sink_in.s3_ok)
       IN  sink_out' =
               [s3 |-> s3,
                row |-> IF "upload_postgres" \in SinksRun(s3)
                        THEN FinishedRow(sink_in.report_json) ELSE NoRow,
                ran |-> SinksRun(s3),
                raised |-> s3 = "failed"]
    /\ UNCHANGED <<sink_in, dry_run, database_url>>

\* sh lines 62-66: an interrupt during the sleep prunes the work trees and is
\* re-raised; nothing in build_pr or main catches it.
ShInterrupt(w) ==
    /\ pc[w] = "supervise"
    /\ pc' = [pc EXCEPT ![w] = "crashed"]
    /\ UNCHANGED <<now, msg_status, msg_body, dry_run, database_url, seed_prs,
                   last_sqs_message, cur, last_poll, idle_since, job, receives,
                   deletes, builds>>

\* main lines 296-305: where the for loop goes after a job.
AfterJob(w) == IF last_sqs_message[w] = NoTime THEN "source" ELSE "poll"

\* main lines 299-305: nix-collect-garbage with check=True, skipped in dry-run;
\* then the for loop asks the generator for the next msg.
CollectGarbage(w, ok) ==
    /\ pc[w] = "gc"
    /\ pc' = [pc EXCEPT ![w] = IF dry_run \/ ok THEN AfterJob(w) ELSE "crashed"]
    /\ cur' = [cur EXCEPT ![w] = NoJob]
    /\ job' = [job EXCEPT ![w] = NoResult]
    /\ UNCHANGED <<now, msg_status, msg_body, dry_run, database_url, seed_prs,
                   last_sqs_message, last_poll, idle_since, receives, deletes, builds>>

\* The host is terminated (scale-in, spot reclaim, power loss) at any point.
Kill(w) ==
    /\ pc[w] \notin {"killed", "crashed", "finished"}
    /\ pc' = [pc EXCEPT ![w] = "killed"]
    /\ UNCHANGED <<now, msg_status, msg_body, dry_run, database_url, seed_prs,
                   last_sqs_message, cur, last_poll, idle_since, job, receives,
                   deletes, builds>>

(***************************************************************************)
(* backend.py: sh, and what build_pr and main do when it returns           *)
(***************************************************************************)
\* lines 35-39: BUILD_TIMEOUT + 10 minutes, in tenths of a second
BUILD_TIMEOUT == 2 * 3600 * 10
NIXPKGS_REVIEW_TIMEOUT == BUILD_TIMEOUT + 10 * 60 * 10
\* line 63: time.sleep(0.1), in tenths of a second
SleepStep == 1
\* line 71
TimeoutCode == -1

\* When the subprocess exits by itself (in tenths of a second after its
\* start), if ever, and with what code.
ExitTimes == {1, 2, NIXPKGS_REVIEW_TIMEOUT - 1, NIXPKGS_REVIEW_TIMEOUT,
              NIXPKGS_REVIEW_TIMEOUT + 1, NIXPKGS_REVIEW_TIMEOUT + 2}
Procs == [exits : {TRUE}, exit_at : ExitTimes, returncode : {0, 1}, killed : {FALSE}]
             \cup [exits : {FALSE}, exit_at : {0}, returncode : {0}, killed : {FALSE}]
NoReturn == -2

\* lines 67-69: proc.poll() at elapsed time t is not None; it is then
\* proc.returncode
Exited(t) == proc.exits /\ proc.exit_at <= t
\* line 61
LoopCondition(t) == t <= NIXPKGS_REVIEW_TIMEOUT

\* n more iterations of the while loop would all find the subprocess running.
Quiet(n) ==
    /\ LoopCondition(sh_elapsed + (n - 1) * SleepStep)
    /\ ~Exited(sh_elapsed + n * SleepStep)
\* Runs of 1, 10, 100, ... iterations
Jumps == {10 ^ k : k \in 0..MaxJump}

ShInit ==
    /\ sh_pc = "loop"
    /\ sh_elapsed = 0
    /\ proc \in Procs
    /\ sh_ret = NoReturn
    /\ pruned = FALSE

\* lines 61-69, n times over, n being the longest run of quiet iterations
\* among Jumps: the loop sleeps, polls, and finds the subprocess running.
SuperviseQuiet(n) ==
    /\ sh_pc = "loop"
    /\ Quiet(n)
    /\ \A m \in Jumps : Quiet(m) => m <= n
    /\ sh_elapsed' = sh_elapsed + n * SleepStep
    /\ UNCHANGED <<sh_pc, proc, sh_ret, pruned, sink_vars, dry_run, database_url>>

\* lines 61-69: the iteration whose poll finds the subprocess gone.
SuperviseExit ==
    /\ sh_pc = "loop"
    /\ LoopCondition(sh_elapsed)
    /\ Exited(sh_elapsed + SleepStep)
    /\ sh_elapsed' = sh_elapsed + SleepStep
    /\ sh_ret' = proc.returncode
    /\ sh_pc' = "returned"
    /\ UNCHANGED <<proc, pruned, sink_vars, dry_run, database_url>>

\* Variant: the expiry of the timeout is raised as an error.
OnTimeout_Raise == [pc |-> "raised", ret |-> NoReturn]

\* lines 70-71
OnTimeout == [pc |-> "returned", ret |-> TimeoutCode]

\* lines 56-71: the loop condition fails; sh leaves the with block, which
\* ends the subprocess, and returns.
SuperviseTimeout ==
    /\ sh_pc = "loop"
    /\ ~LoopCondition(sh_elapsed)
    /\ sh_pc' = OnTimeout.pc
    /\ sh_ret' = OnTimeout.ret
    /\ proc' = [proc EXCEPT !.killed = ~Exited(sh_elapsed)]
    /\ UNCHANGED <<sh_elapsed, pruned, sink_vars, dry_run, database_url>>

\* The exceptions an interrupt can raise in the loop, and the statement in
\* which it is raised: RuntimeError, or the KeyboardInterrupt of SIGINT.
InterruptKinds == {"RuntimeError", "KeyboardInterrupt"}
InterruptPlaces == {"sleep", "poll"}

\* lines 62-66: the try covers time.sleep only and catches RuntimeError only.
Caught(kind, place) == kind = "RuntimeError" /\ place = "sleep"

\* lines 62-69: an exception raised in the loop. If the except clause
\* catches it the work trees are pruned and it is raised again; otherwise it
\* propagates as it is. Either way it leaves the with block, which ends the
\* subprocess.
SuperviseInterrupt(kind, place) ==
    /\ sh_pc = "loop"
    /\ LoopCondition(sh_elapsed)
    /\ pruned' = Caught(kind, place)
    /\ proc' = [proc EXCEPT !.killed = ~Exited(sh_elapsed)]
    /\ sh_pc' = "raised"
    /\ UNCHANGED <<sh_elapsed, sh_ret, sink_vars, dry_run, database_url>>

\* build_pr lines 139-143 once sh has returned, whatever it returned.
JobUpload ==
    /\ sh_pc = "returned"
    /\ RunSinks
    /\ sh_pc' = IF sink_out'.raised THEN "raised" ELSE "uploaded"
    /\ UNCHANGED <<sh_elapsed, proc, sh_ret, pruned>>

\* main lines 296-305: nix-collect-garbage (check=True) unless dry-run, then
\* the for loop asks source() for the next message.
JobCollectGarbage(ok) ==
    /\ sh_pc = "uploaded"
    /\ sh_pc' = IF dry_run \/ ok THEN "next" ELSE "raised"
    /\ UNCHANGED <<sh_elapsed, proc, sh_ret, pruned, sink_vars, dry_run, database_url>>

(***************************************************************************)
(* post_build_hook.py main lines 75-90 and utils.py with_distributed_lock   *)
(***************************************************************************)
Publishers == 1..NumPublishers
PublishedPrs == 1..MaxKeys
NoHolder == 0

\* Variant: the lock is keyed by the publisher (its machine), not by the PR.
LockKey_Publisher(p) == MaxKeys + p

\* line 80: the lock key is os.environ["PR"]
LockKey(p) == pub[p].pr
LockKeys == PublishedPrs \cup {MaxKeys + p : p \in Publishers}

PublishInit ==
    /\ pub \in [Publishers -> [pc : {"gate"}, pr : PublishedPrs, uploaded : {None},
                                blocked : {"pending"}, blocked_reason : {None},
                                first_build : {"pending"},
                                posted : {FALSE}]]
    /\ locks = [k \in LockKeys |-> NoHolder]

\* Variant: a blocked decision ends the hook with an error, report.json is
\* not written back.
PublishGate_BlockedRaises(p, d) ==
    /\ pub[p].pc = "gate"
    /\ pub' = [pub EXCEPT ![p] = [@ EXCEPT !.pc = IF d.result = "True" THEN "raised"
                                                  ELSE "acquire",
                                           !.blocked = d.result,
                                           !.blocked_reason = d.blocked_reason,
                                           !.first_build = d.first_build]]
    /\ UNCHANGED locks

\* Variant: the decision is made with the lock of the PR already taken.
PublishGate_UnderLock(p, d) ==
    /\ pub[p].pc = "gate"
    /\ locks[LockKey(p)] = NoHolder
    /\ locks' = [locks EXCEPT ![LockKey(p)] = IF d.result = "True" THEN NoHolder ELSE p]
    /\ pub' = [pub EXCEPT ![p] = IF d.result = "True"
                                 THEN [@ EXCEPT !.pc = "done", !.uploaded = FALSE,
                                                !.blocked = d.result,
                                                !.blocked_reason = d.blocked_reason,
                                                !.first_build = d.first_build]
                                 ELSE [@ EXCEPT !.pc = "post",
                                                !.blocked = d.result,
                                                !.blocked_reason = d.blocked_reason,
                                                !.first_build = d.first_build]]

\* line 75 and lines 84-90: is_blocked returns the decision d.result and has
\* set report_json["blocked_reason"] when it returned True; a blocked report
\* is written back to report.json with uploaded = False.
PublishGate(p, d) ==
    /\ pub[p].pc = "gate"
    /\ pub' = [pub EXCEPT ![p] = IF d.result = "True"
                                 THEN [@ EXCEPT !.pc = "done", !.uploaded = FALSE,
                                                !.blocked = d.result,
                                                !.blocked_reason = d.blocked_reason,
                                                !.first_build = d.first_build]
                                 ELSE [@ EXCEPT !.pc = "acquire",
                                                !.blocked = d.result,
                                                !.blocked_reason = d.blocked_reason,
                                                !.first_build = d.first_build]]
    /\ UNCHANGED locks

\* line 75, block_github_comment.py lines 136, 175 and 196: is_blocked leaves
\* by an exception (a GitHub request that fails, a comment whose body is
\* null); the hook ends there.
PublishGateRaises(p) ==
    /\ pub[p].pc = "gate"
    /\ pub' = [pub EXCEPT ![p].pc = "raised"]
    /\ UNCHANGED locks

\* line 80, utils.py lines 22-28: acquire_lock(lock_key) returns once the
\* lock of that key is this publisher's; until then the publisher waits.
AcquireLock(p) ==
    /\ pub[p].pc = "acquire"
    /\ locks[LockKey(p)] = NoHolder
    /\ locks' = [locks EXCEPT ![LockKey(p)] = p]
    /\ pub' = [pub EXCEPT ![p].pc = "post"]

\* line 81: nixpkgs-review post-result --prefer-edit (its exit code is not
\* looked at)
PostResult(p) ==
    /\ pub[p].pc = "post"
    /\ pub' = [pub EXCEPT ![p] = [@ EXCEPT !.pc = "sleep", !.posted = TRUE]]
    /\ UNCHANGED locks

\* lines 82-90, utils.py lines 28-29: after time.sleep(2) the with block is
\* left, which releases the lock; uploaded = True is written to report.json.
ReleaseLock(p) ==
    /\ pub[p].pc = "sleep"
    /\ locks' = [locks EXCEPT ![LockKey(p)] = NoHolder]
    /\ pub' = [pub EXCEPT ![p] = [@ EXCEPT !.pc = "done", !.uploaded = TRUE]]

(***************************************************************************)
(* server.py: handle_request and aiter_server_events                        *)
(***************************************************************************)
\* What json.loads can return for the value of "pr": an int, or a value of
\* another Python type.
PrValues == [t : {"int"}, v : 1..MaxSubmit]
                \cup [t : {"bool", "float", "str", "NoneType", "list"}, v : {0}]
NoPr == [t |-> "absent", v |-> 0]
\* Request bodies: not JSON; a JSON object with or without "pr"; JSON of
\* another type.
RequestBodies ==
    [valid : {FALSE}, t : {"none"}, pr : {NoPr}]
        \cup [valid : {TRUE}, t : {"dict"}, pr : PrValues \cup {NoPr}]
        \cup [valid : {TRUE}, t : {"list", "str", "int", "NoneType"}, pr : {NoPr}]

\* line 18: isinstance(pr, int); bool is a subclass of int
isinstance_int(v) == v.t \in {"int", "bool"}

Answer(status, body, put) == [status |-> status, body |-> body, put |-> put]

\* line 17 on data that is no dict: data["pr"] raises TypeError, which
\* line 19 does not catch; aiohttp answers a handler's exception with 500.
SubscriptError == Answer(500, "", <<>>)

\* lines 11-23
handle_request(body) ==
    IF ~body.valid THEN Answer(400, "", <<>>)
    ELSE IF body.t # "dict" THEN SubscriptError
    ELSE IF body.pr = NoPr THEN Answer(422, "", <<>>)
    ELSE IF ~isinstance_int(body.pr) THEN Answer(422, "", <<>>)
    ELSE Answer(200, "ok", <<body.pr>>)

\* What GitHub can answer to the lookup of a pull request: found, rate
\* limited, not found, server error.
LookupStatuses == {200, 403, 404, 500}

NoRequest == [body |-> None, answer |-> Answer(0, "", <<>>), yielded |-> NoPr, lookup |-> 0]

ServerInit ==
    /\ srv = [pc |-> "get", queue |-> <<>>, served |-> 0]
    /\ srv_last = NoRequest

\* lines 11-23: one POST /
HandleRequest(body) ==
    /\ srv.served < MaxRequests
    /\ LET answer == handle_request(body)
       IN  /\ srv' = [srv EXCEPT !.queue = @ \o answer.put, !.served = @ + 1]
           /\ srv_last' = [srv_last EXCEPT !.body = body, !.answer = answer]

\* lines 47-50 and nixpkgs.py pr_number_as_pull_event: the number is
\* taken off the queue and looked up; a lookup that is answered with 200 gives
\* the event that is yielded; any other answer raises RuntimeError (nixpkgs.py
\* lines 196-203), which the generator does not catch. Only an int can be found.
ServerGet(status) ==
    /\ srv.pc = "get"
    /\ srv.queue # <<>>
    /\ status = 200 => Head(srv.queue).t = "int"
    /\ srv' = [srv EXCEPT !.queue = Tail(@),
                          !.pc = IF status = 200 THEN "get" ELSE "raised"]
    /\ srv_last' = [srv_last EXCEPT !.yielded = IF status = 200 THEN Head(srv.queue) ELSE NoPr,
                                    !.lookup = status]

(***************************************************************************)
(* block_github_comment.py                                                 *)
(***************************************************************************)
GH_USER_BLOCKLIST == {"alyssais", "ashkitten", "andir", "edef1c", "mweinelt",
                      "adisbladis", "NinjaTrappeur", "vbgl"}
BOT_LOGIN == "r-rmcgibbo"

\* What an entry of the oom-enospc-notify journal decodes to: the "event" of
\* its json MESSAGE, or None when the MESSAGE is not json (try_decode gives {}).
OomEntries == {"OOM Kill", "ENOSPC", "Disk ok", "not json"}
try_decode(entry) == IF entry = "not json" THEN None ELSE entry

\* What an entry of the earlyoom journal says.
EarlyoomEntries == {"sending SIGTERM to process", "sending SIGKILL to process", "mem avail"}

\* A comment of the proposal: who wrote it ("no user" when the json has no
\* user.login) and whether its body holds the nixpkgs-review NEEDLE of this system.
Comments == [login : {BOT_LOGIN, "somebody", "no user"}, needle : BOOLEAN]

Bounded(S, n) == {x \in SUBSET S : Cardinality(x) <= n}

GateInputs ==
    [start_time_set : BOOLEAN,
     oom_journal : Bounded(OomEntries, MaxJournal),
     earlyoom_journal : Bounded(EarlyoomEntries, MaxJournal),
     disk_used : {95, 96},
     built : 0..MaxBuilt,
     failed : 0..MaxFailed,
     timed_out : 0..MaxTimedOut,
     hammer_report : {None, "suggestions"},
     comments : Bounded(Comments, MaxComments),
     pr_data : [login : {"alyssais", "somebody"}, state : {"open", "closed"},
                needle : BOOLEAN],
     dry_run : BOOLEAN]

DISK_TOTAL == 100

\* lines 37-56
upload_blocked_oom_or_enospc(g) ==
    IF ~g.start_time_set THEN FALSE
    ELSE \E entry \in g.oom_journal : try_decode(entry) \in {"OOM Kill", "ENOSPC"}

\* lines 85-91
is_kill(entry) ==
    LET c1 == entry = "sending SIGTERM to process"
        c2 == entry = "sending SIGKILL to process"
    IN  c1 \/ c2

\* lines 59-95
upload_blocked_earlyoom(g) ==
    IF ~g.start_time_set THEN FALSE
    ELSE \E entry \in g.earlyoom_journal : is_kill(entry)

\* lines 107-111: disk.used / disk.total > 0.95
upload_blocked_disk_full(g) ==
    g.failed > 0 /\ g.disk_used * 100 > 95 * DISK_TOTAL

\* lines 114-117
upload_blocked_empty(g) == g.built + g.failed = 0

\* lines 120-123
upload_blocked_timed_out(g) == g.timed_out > 0

\* lines 98-104
upload_blocked_single_build(g) ==
    g.built = 1 /\ g.failed = 0 /\ g.hammer_report = None

\* lines 31-34
upload_blocked_due_to_blocklist(pr_user_login, g) ==
    pr_user_login \in GH_USER_BLOCKLIST /\ g.failed = 0

\* lines 126-129
upload_blocked_due_to_pr_closed(pr_data) == pr_data.state = "closed"

\* lines 132-137, for a comment or for the proposal itself
github_comment_is_nixpkgs_review(c) == c.needle

\* lines 140-144: a comment without user.login raises KeyError, caught as False
github_comment_is_editable(c) ==
    IF c.login = "no user" THEN FALSE ELSE c.login = BOT_LOGIN

Decision(result, reason) == [result |-> result, blocked_reason |-> reason]

\* Variant: the timeout check moved in front of the disk check.
UnconditionalReason_TimeoutFirst(g) ==
    IF upload_blocked_oom_or_enospc(g) THEN "OOM_ENOSPC"
    ELSE IF upload_blocked_earlyoom(g) THEN "EARLY_OOM"
    ELSE IF upload_blocked_timed_out(g) THEN "BUILD_TIMEOUT"
    ELSE IF upload_blocked_disk_full(g) THEN "DISK_FULL"
    ELSE IF upload_blocked_empty(g) THEN "NO_PACKAGES_BUILT"
    ELSE None

\* lines 150-173: the checks made before the comments are fetched; None when
\* none of them matches.
UnconditionalReason(g) ==
    IF upload_blocked_oom_or_enospc(g) THEN "OOM_ENOSPC"
    ELSE IF upload_blocked_earlyoom(g) THEN "EARLY_OOM"
    ELSE IF upload_blocked_disk_full(g) THEN "DISK_FULL"
    ELSE IF upload_blocked_empty(g) THEN "NO_PACKAGES_BUILT"
    ELSE IF upload_blocked_timed_out(g) THEN "BUILD_TIMEOUT"
    ELSE None

\* Variant: the comments of the bot are not looked for.
is_first_build_Always(g) == TRUE

\* lines 175-177
is_first_build(g) == ~(\E c \in g.comments : github_comment_is_editable(c))

\* lines 213-220
PreviousReview(g) ==
    /\ \/ github_comment_is_nixpkgs_review(g.pr_data)
       \/ \E c \in g.comments : github_comment_is_nixpkgs_review(c)
    /\ g.failed = 0
    /\ g.hammer_report = None

\* Variant: the opt-out list consulted before the single-package check.
FirstBuildReason_BlocklistFirst(g) ==
    IF upload_blocked_due_to_blocklist(g.pr_data.login, g) THEN "AUTHOR_BLOCKLIST_CLEAN"
    ELSE IF upload_blocked_single_build(g) THEN "SINGLE_CLEAN_PACKAGE"
    ELSE IF upload_blocked_due_to_pr_closed(g.pr_data) THEN "PR_CLOSED"
    ELSE IF PreviousReview(g) THEN "PREVIOUS_REVIEW"
    ELSE None

\* lines 187-223: the checks of the first-post path; None when none matches.
FirstBuildReason(g) ==
    IF upload_blocked_single_build(g) THEN "SINGLE_CLEAN_PACKAGE"
    ELSE IF upload_blocked_due_to_blocklist(g.pr_data.login, g) THEN "AUTHOR_BLOCKLIST_CLEAN"
    ELSE IF upload_blocked_due_to_pr_closed(g.pr_data) THEN "PR_CLOSED"
    ELSE IF PreviousReview(g) THEN "PREVIOUS_REVIEW"
    ELSE None

\* Variant: NIXPKGS_REVIEW_DRY_RUN is not looked at.
DryRunDecision_Never(g) == Decision("False", None)

\* lines 225-231
DryRunDecision(g) ==
    IF g.dry_run THEN Decision("True", "DRY_RUN") ELSE Decision("False", None)

\* lines 147-231: the returned value and what report_json["blocked_reason"]
\* was set to.
is_blocked(g) ==
    IF UnconditionalReason(g) # None THEN Decision("True", UnconditionalReason(g))
    ELSE IF is_first_build(g) /\ FirstBuildReason(g) # None
         THEN Decision("True", FirstBuildReason(g))
         ELSE DryRunDecision(g)

\* What is_blocked can hand to its caller, and what it found at lines 175-177
\* (a comment of the bot: an edit; none: a first post) if it got that far.
FirstBuildRead(g) ==
    IF UnconditionalReason(g) # None THEN "unread"
    ELSE IF is_first_build(g) THEN "first" ELSE "edit"
Decisions ==
    {[result |-> is_blocked(g).result, blocked_reason |-> is_blocked(g).blocked_reason,
      first_build |-> FirstBuildRead(g)] : g \in GateInputs}

NoDecision == Decision("pending", None)

GateInit ==
    /\ gate_in \in GateInputs
    /\ gate_out = NoDecision

\* post_build_hook.py line 75: the hook asks for the decision.
Decide ==
    /\ gate_out = NoDecision
    /\ gate_out' = is_blocked(gate_in)
    /\ UNCHANGED gate_in

(***************************************************************************)
(* nixbot_common/__init__.py and nixpkgs.py: aiter_nixpkgs_events          *)
(***************************************************************************)
\* __init__.py lines 15-19, on strings as sequences of characters
removeprefix(s, prefix) ==
    IF Len(s) >= Len(prefix) /\ SubSeq(s, 1, Len(prefix)) = prefix
    THEN SubSeq(s, Len(prefix) + 1, Len(s))
    ELSE s

\* An event of the feed: its id and its payload (v tells payloads apart).
Events == [id : 1..MaxId, v : 1..MaxVer]
\* A page of the feed: the json array of a 200 response.
Pages == UNION {[1..n -> Events] : n \in 0..MaxPage}

def_poll_interval == 60
\* Non-200 responses in a row are counted up to this many.
MaxMisses == 2
Statuses == {200, 304, 401, 500}
Etags == {<<"W", "/", "a">>, <<"a">>}
\* A response: status, json body, and the Etag and X-Poll-Interval headers
\* (has_etag / has_interval tell whether the header is there).
NoEtag == <<>>
Headers ==
    [has_etag : {TRUE}, etag : Etags, has_interval : BOOLEAN, interval : {30}]
        \cup [has_etag : {FALSE}, etag : {NoEtag}, has_interval : BOOLEAN, interval : {30}]
Responses ==
    {[status |-> st, body |-> b, headers |-> h] :
        st \in Statuses, b \in Pages, h \in Headers}
\* Only a 200 response has its body read as a page (line 65).
FeedResponses == {r \in Responses : r.status # 200 => r.body = <<>>}

\* A dict, as the sequence of its items in insertion order.
Keys(d) == {d[i].id : i \in DOMAIN d}

\* d[e["id"]] = e: a new key is appended, an old one keeps its place.
DictSet(d, e) ==
    IF e.id \in Keys(d)
    THEN [i \in DOMAIN d |-> IF d[i].id = e.id THEN e ELSE d[i]]
    ELSE Append(d, e)

RECURSIVE DictOfPrefix(_, _)
DictOfPrefix(json_body, n) ==
    IF n = 0 THEN <<>> ELSE DictSet(DictOfPrefix(json_body, n - 1), json_body[n])

\* line 66: cur_events = {e["id"]: e for e in json_body}
CurEvents(json_body) == DictOfPrefix(json_body, Len(json_body))

\* Variant: the whole current page is taken as new.
NewEvents_All(cur_events, prv) == cur_events

\* lines 71-73: the items of cur_events whose key is not in prv_events
NewEvents(cur_events, prv) ==
    LET fresh(e) == e.id \notin Keys(prv) IN SelectSeq(cur_events, fresh)

NoWindow == [none |-> TRUE, dict |-> <<>>]
Window(d) == [none |-> FALSE, dict |-> d]

\* Variant: the first page is compared with an empty window.
Yielded_FirstPageToo(resp, prv) ==
    IF resp.status = 200
    THEN LET fresh(e) == e.id \notin {prv.dict[i].id : i \in DOMAIN prv.dict}
         IN  SelectSeq(CurEvents(resp.body), fresh)
    ELSE <<>>

\* lines 64-78: what a response makes the watcher yield
Yielded(resp, prv) ==
    IF resp.status = 200 /\ ~prv.none
    THEN NewEvents(CurEvents(resp.body), prv.dict)
    ELSE <<>>

\* Variant: the window keeps the events of earlier pages.
WindowAfter_Union(resp, prv) ==
    IF resp.status = 200
    THEN Window(prv.dict \o NewEvents(CurEvents(resp.body), prv.dict))
    ELSE prv

\* Variant: a response that is not a 200 forgets the window.
WindowAfter_ForgetOnError(resp, prv) ==
    IF resp.status = 200 THEN Window(CurEvents(resp.body)) ELSE NoWindow

\* lines 64-78: the stored window after a response
WindowAfter(resp, prv) ==
    IF resp.status = 200 THEN Window(CurEvents(resp.body)) ELSE prv

\* line 80
PollInterval(resp) ==
    IF resp.headers.has_interval THEN resp.headers.interval ELSE def_poll_interval

NoResponse == [status |-> 0,
               headers |-> [has_etag |-> FALSE, etag |-> NoEtag,
                            has_interval |-> FALSE, interval |-> 30]]

WatcherInit ==
    /\ watcher_pc = "poll"
    /\ req_headers = <<>>
    /\ prv_events = NoWindow
    /\ last_resp = NoResponse
    /\ yielded = <<>>
    /\ sleep_time = 0
    /\ pages = <<>>
    /\ yielded_before = {}
    /\ startup_held = {}
    /\ non200_run = 0

\* Variant: every error status is fatal.
Fatal_AnyError(resp) == resp.status \notin {200, 304}

\* lines 59-62: the status on which RuntimeError is raised
Fatal(resp) == resp.status = 401

\* lines 48-82: one request and the handling of its response, up to the sleep.
\* A 401 raises RuntimeError, which ends the generator.
WatcherPoll(resp) ==
    /\ watcher_pc = "poll"
    /\ last_resp' = [status |-> resp.status, headers |-> resp.headers]
    /\ IF Fatal(resp)
       THEN /\ watcher_pc' = "dead"
            /\ yielded' = <<>>
            /\ UNCHANGED <<prv_events, sleep_time, pages>>
       ELSE /\ watcher_pc' = "sleep"
            /\ yielded' = Yielded(resp, prv_events)
            /\ prv_events' = WindowAfter(resp, prv_events)
            /\ sleep_time' = PollInterval(resp)
            /\ pages' = IF resp.status # 200 THEN pages
                        ELSE IF Len(pages) < 2 THEN Append(pages, resp.body)
                        ELSE <<pages[2], resp.body>>
    /\ yielded_before' = yielded_before \cup Keys(yielded)
    /\ startup_held' = IF Fatal(resp) \/ resp.status # 200 THEN startup_held
                       ELSE IF prv_events.none THEN Keys(CurEvents(resp.body))
                       ELSE startup_held \cap Keys(CurEvents(resp.body))
    /\ non200_run' = IF resp.status = 200
                     THEN (IF last_resp.status \in {200, 0} THEN 0 ELSE non200_run)
                     ELSE IF last_resp.status \in {200, 0} THEN 1
                     ELSE IF non200_run < MaxMisses THEN non200_run + 1 ELSE MaxMisses
    /\ UNCHANGED req_headers

\* lines 82-88: the sleep ends and the headers of the next request are set.
WatcherWake ==
    /\ watcher_pc = "sleep"
    /\ req_headers' = IF last_resp.headers.has_etag
                      THEN <<removeprefix(last_resp.headers.etag, <<"W", "/">>)>>
                      ELSE <<>>
    /\ watcher_pc' = "poll"
    /\ UNCHANGED <<prv_events, last_resp, yielded, sleep_time, pages, yielded_before,
                   startup_held, non200_run>>

(***************************************************************************)
(* nixpkgs.py: get_ofborg_gist_data, and frontend.py                       *)
(***************************************************************************)
ALL_BUILD_SYSTEMS == {"aarch64-linux", "x86_64-linux"}
BLACKLISTED_ATTRS == {"tests.nixos-functions.nixos-test",
                      "tests.nixos-functions.nixosTest-test"}

\* The lines of the companion artifact: "<system> <attribute>".
GistSystems == ALL_BUILD_SYSTEMS \cup {"x86_64-darwin"}
GistAttrs == {"hello"} \cup BLACKLISTED_ATTRS
GistLine == [system : GistSystems, attribute : GistAttrs]
Gists == UNION {[1..n -> GistLine] : n \in 0..MaxLines}

\* dict.get(key, default), a dict being a function on its keys
Get(d, key, default) == IF key \in DOMAIN d THEN d[key] ELSE default

\* Variant: no attribute is left out.
AddLine_KeepAll(packages_per_system, line) ==
    [sys \in DOMAIN packages_per_system \cup {line.system} |->
        IF sys = line.system
        THEN (IF sys \in DOMAIN packages_per_system THEN packages_per_system[sys] ELSE {})
                 \cup {line.attribute}
        ELSE packages_per_system[sys]]

\* nixpkgs.py lines 101-103: one line of the artifact added to the defaultdict
AddLine(packages_per_system, line) ==
    IF line.attribute \notin BLACKLISTED_ATTRS
    THEN [sys \in DOMAIN packages_per_system \cup {line.system} |->
             IF sys = line.system
             THEN Get(packages_per_system, sys, {}) \cup {line.attribute}
             ELSE packages_per_system[sys]]
    ELSE packages_per_system

RECURSIVE GistPrefix(_, _)
GistPrefix(lines, n) ==
    IF n = 0 THEN <<>> ELSE AddLine(GistPrefix(lines, n - 1), lines[n])

\* nixpkgs.py lines 91-104
get_ofborg_gist_data(lines) == GistPrefix(lines, Len(lines))

\* nixpkgs.py lines 153-156
OfborgEval(url, lines) ==
    [url |-> url, packages_per_system |-> get_ofborg_gist_data(lines)]

\* Variant: only the systems that have a queue are counted.
DispatchRow_BuildSystemsOnly(pr, ofborg_eval) ==
    [pull_request_number |-> pr,
     state |-> "dispatched",
     ofborg_eval_url |-> ofborg_eval.url,
     num_packages |-> [k \in DOMAIN ofborg_eval.packages_per_system \cap ALL_BUILD_SYSTEMS |->
                          Cardinality(ofborg_eval.packages_per_system[k])]]

\* frontend.py lines 63-69: the row log_buildable_pr inserts
DispatchRow(pr, ofborg_eval) ==
    [pull_request_number |-> pr,
     state |-> "dispatched",
     ofborg_eval_url |-> ofborg_eval.url,
     num_packages |-> [k \in DOMAIN ofborg_eval.packages_per_system |->
                          Cardinality(ofborg_eval.packages_per_system[k])]]

\* Variant: the insert is executed twice.
log_buildable_pr_Twice(rows, pr, ofborg_eval) ==
    IF ~conn THEN rows
    ELSE Append(Append(rows, DispatchRow(pr, ofborg_eval)), DispatchRow(pr, ofborg_eval))

\* frontend.py lines 47-70
log_buildable_pr(rows, pr, ofborg_eval) ==
    IF ~conn THEN rows ELSE Append(rows, DispatchRow(pr, ofborg_eval))

\* Variant: no system is skipped.
IsEmptyFor_Never(ofborg_eval, system) == FALSE

\* Variant: a system is skipped only when no system at all has units.
IsEmptyFor_NoUnitsAnywhere(ofborg_eval, system) ==
    \A k \in DOMAIN ofborg_eval.packages_per_system :
        ofborg_eval.packages_per_system[k] = {}

\* frontend.py line 131: the test that skips a system
IsEmptyFor(ofborg_eval, system) ==
    Cardinality(Get(ofborg_eval.packages_per_system, system, {})) = 0

\* frontend.py lines 131-146: the body of the for loop for one system. acc is
\* what the loop has done so far: the send_message calls per queue, the acks
\* looked at, the errors logged.
SendOne(acc, system, pr, ofborg_eval, ack) ==
    IF IsEmptyFor(ofborg_eval, system) THEN acc
    ELSE [queues |-> [acc.queues EXCEPT ![system] =
                         Append(@, [pr |-> pr, ofborg_url |-> ofborg_eval.url])],
          checked |-> acc.checked \cup {system},
          errors |-> IF ack # 200 THEN acc.errors + 1 ELSE acc.errors]

\* Variant: a non-200 acknowledgment ends the loop.
RECURSIVE SendLoop_StopOnError(_, _, _, _, _, _)
SendLoop_StopOnError(acc, order, n, pr, ofborg_eval, acks) ==
    IF n > Len(order) THEN acc
    ELSE IF ~IsEmptyFor(ofborg_eval, order[n]) /\ acks[order[n]] # 200
         THEN SendOne(acc, order[n], pr, ofborg_eval, acks[order[n]])
         ELSE SendLoop_StopOnError(SendOne(acc, order[n], pr, ofborg_eval, acks[order[n]]),
                                   order, n + 1, pr, ofborg_eval, acks)

\* frontend.py lines 130-146: the for loop, over the systems in the order the
\* set ALL_BUILD_SYSTEMS happens to iterate.
RECURSIVE SendLoop(_, _, _, _, _, _)
SendLoop(acc, order, n, pr, ofborg_eval, acks) ==
    IF n > Len(order) THEN acc
    ELSE SendLoop(SendOne(acc, order[n], pr, ofborg_eval, acks[order[n]]),
                  order, n + 1, pr, ofborg_eval, acks)

Orders(S) == {o \in [1..Cardinality(S) -> S] : \A i, j \in DOMAIN o : i # j => o[i] # o[j]}
AckCodes == {200, 500}

NoQueues == [none |-> TRUE, q |-> [sys \in ALL_BUILD_SYSTEMS |-> <<>>]]
NoDispatch == [n |-> 0, pr |-> 0, resolved |-> FALSE, url |-> None,
               lines |-> <<>>, packages_per_system |-> <<>>,
               acks |-> [sys \in ALL_BUILD_SYSTEMS |-> 200], checked |-> {}]

DispatchInit ==
    /\ dry \in BOOLEAN
    /\ conn \in BOOLEAN
    /\ dispatch_pc = "setup"
    /\ sqs_queues = NoQueues
    /\ dispatched_rows = <<>>
    /\ error_log = 0
    /\ last_dispatch = NoDispatch

\* frontend.py lines 97-111: the queues are looked up unless dry; outside dry
\* mode a missing database url fails the assert of line 103.
Setup ==
    /\ dispatch_pc = "setup"
    /\ IF ~dry /\ ~conn
       THEN dispatch_pc' = "dead" /\ UNCHANGED sqs_queues
       ELSE /\ dispatch_pc' = "loop"
            /\ sqs_queues' = [sqs_queues EXCEPT !.none = dry]
    /\ UNCHANGED <<dry, conn, dispatched_rows, error_log, last_dispatch>>

\* frontend.py lines 113-125: the resolver returned None for the event.
DispatchNone(pr) ==
    /\ dispatch_pc = "loop"
    /\ last_dispatch.n < MaxDispatch
    /\ last_dispatch' = [NoDispatch EXCEPT !.n = last_dispatch.n + 1, !.pr = pr]
    /\ UNCHANGED <<dry, conn, dispatch_pc, sqs_queues, dispatched_rows, error_log>>

\* frontend.py lines 113-153: one iteration of the main loop for a resolved
\* evaluation; acks are the HTTPStatusCode the queues would answer with.
Dispatch(pr, url, lines, order, acks) ==
    /\ dispatch_pc = "loop"
    /\ last_dispatch.n < MaxDispatch
    /\ LET ofborg_eval == OfborgEval(url, lines)
           start == [queues |-> sqs_queues.q, checked |-> {}, errors |-> error_log]
           done == IF ~sqs_queues.none
                   THEN SendLoop(start, order, 1, pr, ofborg_eval, acks)
                   ELSE start
       IN  /\ dispatched_rows' = log_buildable_pr(dispatched_rows, pr, ofborg_eval)
           /\ sqs_queues' = [sqs_queues EXCEPT !.q = done.queues]
           /\ error_log' = done.errors
           /\ last_dispatch' =
                  [n |-> last_dispatch.n + 1, pr |-> pr, resolved |-> TRUE, url |-> url,
                   lines |-> lines, packages_per_system |-> ofborg_eval.packages_per_system,
                   acks |-> acks, checked |-> done.checked]
    /\ UNCHANGED <<dry, conn, dispatch_pc>>

(***************************************************************************)
(* nixpkgs.py: get_ofborg_eval                                             *)
(***************************************************************************)
\* line 112, in seconds
default_poll_interval == 60
\* line 113: 6 hours, in seconds
TimeoutSpan == 6 * 3600
FAILURE_MSG == "This PR does not cleanly list package outputs after merging."
SUCCESS_MSG == "^.^!"

\* An element of the status list: a json object with description, state and
\* target_url, or something that is not an object (line 140).
StatusObjects ==
    [is_dict : {TRUE},
     description : {SUCCESS_MSG, FAILURE_MSG},
     state : {"success", "failure"},
     target_url : {"", "gist"}]
NotDict == [is_dict |-> FALSE, description |-> "not a dict", state |-> "failure", target_url |-> ""]
StatusLists == UNION {[1..n -> StatusObjects \cup {NotDict}] : n \in 0..MaxStatuses}

\* What the proposal-detail response is: a draft, a json without statuses_url,
\* or a proposal whose statuses can be fetched.
PrKinds == {"draft", "malformed", "open"}
\* How long a request takes.
FetchTimes == {0, FetchTime}

\* line 144
IsOfborgSuccess(status) ==
    status.is_dict /\ status.description = SUCCESS_MSG /\ status.state = "success"
\* lines 158-161
IsOfborgFailure(status) ==
    status.is_dict /\ status.description = FAILURE_MSG /\ status.state = "failure"

\* Variant: a success status anywhere in the list wins over whatever precedes it.
RECURSIVE Scan_SuccessAnywhere(_, _)
Scan_SuccessAnywhere(rjson, i) ==
    IF \E k \in DOMAIN rjson : IsOfborgSuccess(rjson[k]) /\ rjson[k].target_url # ""
    THEN [verdict |-> "success",
          at |-> CHOOSE k \in DOMAIN rjson :
                     IsOfborgSuccess(rjson[k]) /\ rjson[k].target_url # ""]
    ELSE IF i > Len(rjson) THEN [verdict |-> "waiting", at |-> 0]
    ELSE IF IsOfborgSuccess(rjson[i]) THEN [verdict |-> "no packages", at |-> i]
    ELSE IF IsOfborgFailure(rjson[i]) THEN [verdict |-> "failure", at |-> i]
    ELSE Scan_SuccessAnywhere(rjson, i + 1)

\* Variant: a failure status anywhere in the list wins over whatever precedes it.
RECURSIVE Scan_FailureAnywhere(_, _)
Scan_FailureAnywhere(rjson, i) ==
    IF \E k \in DOMAIN rjson : IsOfborgFailure(rjson[k])
    THEN [verdict |-> "failure",
          at |-> CHOOSE k \in DOMAIN rjson : IsOfborgFailure(rjson[k])]
    ELSE IF i > Len(rjson) THEN [verdict |-> "waiting", at |-> 0]
    ELSE IF IsOfborgSuccess(rjson[i])
         THEN IF rjson[i].target_url = ""
              THEN [verdict |-> "no packages", at |-> i]
              ELSE [verdict |-> "success", at |-> i]
    ELSE Scan_FailureAnywhere(rjson, i + 1)

\* lines 139-170: the for loop over the status list from position i on; the
\* first status that is the evaluator's success or failure ends it.
RECURSIVE Scan(_, _)
Scan(rjson, i) ==
    IF i > Len(rjson) THEN [verdict |-> "waiting", at |-> 0]
    ELSE IF IsOfborgSuccess(rjson[i])
         THEN IF rjson[i].target_url = ""
              THEN [verdict |-> "no packages", at |-> i]
              ELSE [verdict |-> "success", at |-> i]
    ELSE IF IsOfborgFailure(rjson[i]) THEN [verdict |-> "failure", at |-> i]
    ELSE Scan(rjson, i + 1)

NoEval == [none |-> TRUE, url |-> None, packages_per_system |-> <<>>]
SomeEval(ofborg_eval) ==
    [none |-> FALSE, url |-> ofborg_eval.url,
     packages_per_system |-> ofborg_eval.packages_per_system]
NotSeen == [pr |-> None, fetched |-> FALSE, rjson |-> <<>>, verdict |-> None,
            lines |-> <<>>, fetch_time |-> 0, examined |-> 0]

ResolveInit ==
    /\ res_pc = "fetch"
    /\ res_now = 0
    /\ timeout_deadline = 0 + TimeoutSpan
    /\ res_result = NoEval
    /\ res_seen = NotSeen

\* Variant: the deadline is looked at ten poll intervals late.
TimedOut_Late(t) == t > timeout_deadline + 10 * default_poll_interval

\* line 120
TimedOut(t) == t > timeout_deadline

\* lines 117-122: an iteration that finds the deadline passed once the proposal
\* is fetched (the request takes d1). fetch_time adds up the time spent in
\* requests since the deadline was last looked at.
ResolveTimeout(pr_kind, d1) ==
    /\ res_pc = "fetch"
    /\ TimedOut(res_now + d1)
    /\ res_pc' = "returned"
    /\ res_now' = res_now + d1
    /\ res_result' = NoEval
    /\ res_seen' = [NotSeen EXCEPT !.pr = pr_kind, !.verdict = "timeout",
                                   !.fetch_time = res_seen.fetch_time + d1]
    /\ UNCHANGED timeout_deadline

\* Variant: the status list of a draft is fetched before the sleep.
ResolveNotReady_Fetches(pr_kind, d1) ==
    /\ res_pc = "fetch"
    /\ ~TimedOut(res_now + d1)
    /\ pr_kind \in {"draft", "malformed"}
    /\ res_pc' = "sleep"
    /\ res_now' = res_now + d1
    /\ res_result' = NoEval
    /\ res_seen' = [NotSeen EXCEPT !.pr = pr_kind, !.verdict = "waiting", !.fetched = TRUE]
    /\ UNCHANGED timeout_deadline

\* lines 117-132: an iteration that finds a draft, or a response without
\* statuses_url, up to its sleep.
ResolveNotReady(pr_kind, d1) ==
    /\ res_pc = "fetch"
    /\ ~TimedOut(res_now + d1)
    /\ pr_kind \in {"draft", "malformed"}
    /\ res_pc' = "sleep"
    /\ res_now' = res_now + d1
    /\ res_result' = NoEval
    /\ res_seen' = [NotSeen EXCEPT !.pr = pr_kind, !.verdict = "waiting"]
    /\ UNCHANGED timeout_deadline

\* The artifact is fetched only for a success status with a target (line 149).
ResolveGists == {<<>>} \cup {<<line>> : line \in GistLine}
ArtifactsFor(rjson) == IF Scan(rjson, 1).verdict = "success" THEN ResolveGists ELSE {<<>>}

\* lines 117-170: an iteration that fetches the status list rjson (the request
\* takes d2) and scans it, up to its return or its sleep; lines is the
\* companion artifact the evaluator published.
ResolveScan(d1, rjson, d2) ==
    /\ res_pc = "fetch"
    /\ ~TimedOut(res_now + d1)
    /\ \E lines \in ArtifactsFor(rjson) :
       LET scan == Scan(rjson, 1)
       IN  /\ res_pc' = IF scan.verdict = "waiting" THEN "sleep" ELSE "returned"
           /\ res_now' = res_now + d1 + d2
           /\ res_result' =
                  IF scan.verdict = "success"
                  THEN SomeEval(OfborgEval(rjson[scan.at].target_url, lines))
                  ELSE NoEval
           /\ res_seen' = [pr |-> "open", fetched |-> TRUE, rjson |-> rjson,
                           verdict |-> scan.verdict,
                           lines |-> IF scan.verdict = "success" THEN lines ELSE <<>>,
                           fetch_time |-> IF scan.verdict = "waiting" THEN d2 ELSE 0,
                           examined |-> IF scan.at = 0 THEN Len(rjson) ELSE scan.at]
    /\ UNCHANGED timeout_deadline

\* lines 126, 131 and 170: asyncio.sleep(default_poll_interval), then the next
\* iteration.
ResolveWake ==
    /\ res_pc = "sleep"
    /\ res_now' = res_now + default_poll_interval
    /\ res_pc' = "fetch"
    /\ res_seen' = [NotSeen EXCEPT !.fetch_time = res_seen.fetch_time]
    /\ UNCHANGED <<timeout_deadline, res_result>>

(***************************************************************************)
(* frontend.py: aiter_opened_prs and the pr_stream of execute              *)
(***************************************************************************)
EventNums == 1..MaxEvents
\* aiter_opened_prs lines 79-81: the two merged sources
EventSources == {"aiter_nixpkgs_events", "aiter_server_events"}

\* Variant: the results are handed over in the order of the events.
Ordered_True == TRUE

\* execute line 94: stream.map(..., ordered=False)
Ordered == FALSE

Arrived == {e \in EventNums : task_state[e] # "none"}
SeqToSet(q) == {q[i] : i \in DOMAIN q}
\* The resolutions that returned and were not taken by the main loop yet, in
\* the order they returned.
Pending ==
    LET waits(e) == e \notin SeqToSet(dispatch_order) IN SelectSeq(completion_order, waits)

\* What the async for of line 113 gets next from the streamer: the oldest
\* result, or with ordered=True the result of the oldest event.
NextResult ==
    IF Ordered
    THEN IF Len(dispatch_order) < MaxEvents
            /\ task_state[Len(dispatch_order) + 1] = "resolved"
         THEN {Len(dispatch_order) + 1}
         ELSE {}
    ELSE IF Pending # <<>> THEN {Head(Pending)} ELSE {}

FanoutInit ==
    /\ task_state = [e \in EventNums |-> "none"]
    /\ task_source = [e \in EventNums |-> None]
    /\ task_polls = [e \in EventNums |-> 0]
    /\ completion_order = <<>>
    /\ dispatch_order = <<>>

\* aiter_opened_prs lines 79-84 and execute lines 91-95: a source yields an
\* opened-proposal event and the map starts get_ofborg_eval for it.
Discover(source) ==
    /\ Cardinality(Arrived) < MaxEvents
    /\ LET e == Cardinality(Arrived) + 1
       IN  /\ task_state' = [task_state EXCEPT ![e] = "polling"]
           /\ task_source' = [task_source EXCEPT ![e] = source]
    /\ UNCHANGED <<task_polls, completion_order, dispatch_order>>

\* nixpkgs.py lines 124-132 and 165-170: a resolution sleeps and polls again.
PollAgain(e) ==
    /\ task_state[e] = "polling"
    /\ task_polls[e] < MaxPolls
    /\ task_polls' = [task_polls EXCEPT ![e] = @ + 1]
    /\ UNCHANGED <<task_state, task_source, completion_order, dispatch_order>>

\* nixpkgs.py lines 122, 147, 153 and 163: a resolution returns its pair.
Resolve(e) ==
    /\ task_state[e] = "polling"
    /\ task_state' = [task_state EXCEPT ![e] = "resolved"]
    /\ completion_order' = Append(completion_order, e)
    /\ UNCHANGED <<task_source, task_polls, dispatch_order>>

\* execute lines 113-153: the main loop takes the next result and dispatches it.
Consume(e) ==
    /\ e \in NextResult
    /\ task_state' = [task_state EXCEPT ![e] = "dispatched"]
    /\ dispatch_order' = Append(dispatch_order, e)
    /\ UNCHANGED <<task_source, task_polls, completion_order>>

(***************************************************************************)
(* Specifications                                                          *)
(***************************************************************************)
GateIdle == gate_in = None /\ gate_out = None
WatcherIdle ==
    /\ watcher_pc = None /\ req_headers = None /\ prv_events = None
    /\ last_resp = None /\ yielded = None /\ sleep_time = None /\ pages = None
    /\ yielded_before = None /\ startup_held = None /\ non200_run = None
DispatchIdle ==
    /\ dry = None /\ conn = None /\ dispatch_pc = None /\ sqs_queues = None
    /\ dispatched_rows = None /\ error_log = None /\ last_dispatch = None

ResolveIdle ==
    /\ res_pc = None /\ res_now = 0 /\ timeout_deadline = 0 /\ res_result = None
    /\ res_seen = None

FanoutIdle ==
    /\ task_state = None /\ task_source = None /\ task_polls = None
    /\ completion_order = None /\ dispatch_order = None
SinkIdle == sink_in = None /\ sink_out = None
ShIdle ==
    /\ sh_pc = None /\ sh_elapsed = 0 /\ proc = None /\ sh_ret = None /\ pruned = None
PublishIdle == pub = None /\ locks = None
ServerIdle == srv = None /\ srv_last = None
OthersIdle == ResolveIdle /\ FanoutIdle /\ SinkIdle /\ ShIdle /\ PublishIdle /\ ServerIdle

Init == WorkerInit /\ GateIdle /\ WatcherIdle /\ DispatchIdle /\ OthersIdle

WorkerNext ==
    \/ Tick
    \/ \E m \in Msgs, b \in Bodies : SendMessage(m, b)
    \/ \E w \in Workers : YieldSeed(w)
    \/ \E w \in Workers : SourceReturn(w)
    \/ \E w \in Workers : StartIterSqs(w)
    \/ \E w \in Workers, outcome \in {"ok", "error"} : PollEmpty(w, outcome)
    \/ \E w \in Workers, m \in Msgs : PollMessage(w, m)
    \/ \E w \in Workers : StartBuild(w)
    \/ \E w \in Workers, rc \in ReturnCodes, md \in BOOLEAN, js \in BOOLEAN,
          s3_ok \in BOOLEAN : BuildReturn(w, rc, md, js, s3_ok)
    \/ \E w \in Workers : ShInterrupt(w)
    \/ \E w \in Workers, ok \in BOOLEAN : CollectGarbage(w, ok)
    \/ \E w \in Workers : Kill(w)

Next ==
    WorkerNext /\ UNCHANGED <<gate_vars, watcher_vars, dispatch_vars, resolve_vars, fanout_vars, sink_vars, sh_vars,
                   pub_vars, srv_vars>>

Spec == Init /\ [][Next]_vars

\* The worker pool started with two seeded proposals, --seed-prs 9 --seed-prs 10.
SeedRun == <<SeedPr, SeedPr + 1>>
SeedSpecInit == WorkerStart(SeedRun) /\ GateIdle /\ WatcherIdle /\ DispatchIdle /\ OthersIdle
SeedSpec == SeedSpecInit /\ [][Next]_vars

WorkerIdle ==
    /\ now = 0 /\ msg_status = None /\ msg_body = None /\ dry_run = None
    /\ database_url = None /\ seed_prs = None /\ pc = None
    /\ last_sqs_message = None /\ cur = None /\ last_poll = None
    /\ idle_since = None /\ job = None /\ receives = None /\ deletes = None
    /\ builds = None

WatcherSpecInit == WorkerIdle /\ GateIdle /\ WatcherInit /\ DispatchIdle /\ OthersIdle
WatcherNext ==
    /\ \/ \E resp \in FeedResponses : WatcherPoll(resp)
       \/ WatcherWake
    /\ UNCHANGED <<worker_vars, gate_vars, dispatch_vars, resolve_vars, fanout_vars, sink_vars, sh_vars,
                   pub_vars, srv_vars>>
WatcherSpec == WatcherSpecInit /\ [][WatcherNext]_vars

DispatchSpecInit == WorkerIdle /\ GateIdle /\ WatcherIdle /\ DispatchInit /\ OthersIdle
DispatchNext ==
    /\ \/ Setup
       \/ \E pr \in 1..MaxPr : DispatchNone(pr)
       \/ \E pr \in 1..MaxPr, url \in {"gist"}, lines \in Gists,
             order \in Orders(ALL_BUILD_SYSTEMS), acks \in [ALL_BUILD_SYSTEMS -> AckCodes] :
               Dispatch(pr, url, lines, order, acks)
    /\ UNCHANGED <<worker_vars, gate_vars, watcher_vars, resolve_vars, fanout_vars, sink_vars, sh_vars,
                   pub_vars, srv_vars>>
DispatchSpec == DispatchSpecInit /\ [][DispatchNext]_vars

GateSpecInit == WorkerIdle /\ GateInit /\ WatcherIdle /\ DispatchIdle /\ OthersIdle
GateNext ==
    Decide /\ UNCHANGED <<worker_vars, watcher_vars, dispatch_vars, resolve_vars, fanout_vars, sink_vars, sh_vars,
                   pub_vars, srv_vars>>
GateSpec == GateSpecInit /\ [][GateNext]_vars

ResolveSpecInit ==
    /\ WorkerIdle /\ GateIdle /\ WatcherIdle /\ DispatchIdle /\ ResolveInit /\ FanoutIdle
    /\ SinkIdle /\ ShIdle /\ PublishIdle /\ ServerIdle
ResolveNext ==
    /\ \/ \E pr_kind \in PrKinds, d1 \in FetchTimes : ResolveTimeout(pr_kind, d1)
       \/ \E pr_kind \in PrKinds, d1 \in FetchTimes : ResolveNotReady(pr_kind, d1)
       \/ \E d1 \in FetchTimes, rjson \in StatusLists, d2 \in FetchTimes :
             ResolveScan(d1, rjson, d2)
       \/ ResolveWake
    /\ UNCHANGED <<worker_vars, gate_vars, watcher_vars, dispatch_vars, fanout_vars, sink_vars, sh_vars,
                   pub_vars, srv_vars>>
ResolveSpec == ResolveSpecInit /\ [][ResolveNext]_vars
\* The same resolver on status lists of at most one status, with the event
\* loop that keeps running the task: a sleep ends, a request is answered.
ShortStatusLists == {rjson \in StatusLists : Len(rjson) <= 1}
ResolveFairNext ==
    /\ \/ \E pr_kind \in PrKinds, d1 \in FetchTimes : ResolveTimeout(pr_kind, d1)
       \/ \E pr_kind \in PrKinds, d1 \in FetchTimes : ResolveNotReady(pr_kind, d1)
       \/ \E d1 \in FetchTimes, rjson \in ShortStatusLists, d2 \in FetchTimes :
             ResolveScan(d1, rjson, d2)
       \/ ResolveWake
    /\ UNCHANGED <<worker_vars, gate_vars, watcher_vars, dispatch_vars, fanout_vars, sink_vars, sh_vars,
                   pub_vars, srv_vars>>
ResolveFairSpec == ResolveSpecInit /\ [][ResolveFairNext]_vars /\ WF_vars(ResolveFairNext)

FanoutSpecInit ==
    /\ WorkerIdle /\ GateIdle /\ WatcherIdle /\ DispatchIdle /\ ResolveIdle /\ FanoutInit
    /\ SinkIdle /\ ShIdle /\ PublishIdle /\ ServerIdle
FanoutNext ==
    /\ \/ \E source \in EventSources : Discover(source)
       \/ \E e \in EventNums : PollAgain(e)
       \/ \E e \in EventNums : Resolve(e)
       \/ \E e \in EventNums : Consume(e)
    /\ UNCHANGED <<worker_vars, gate_vars, watcher_vars, dispatch_vars, resolve_vars, sink_vars, sh_vars,
                   pub_vars, srv_vars>>
FanoutSpec == FanoutSpecInit /\ [][FanoutNext]_vars

SinkSpecInit ==
    /\ now = 0 /\ msg_status = None /\ msg_body = None /\ seed_prs = None /\ pc = None
    /\ last_sqs_message = None /\ cur = None /\ last_poll = None /\ idle_since = None
    /\ job = None /\ receives = None /\ deletes = None /\ builds = None
    /\ GateIdle /\ WatcherIdle /\ DispatchIdle /\ ResolveIdle /\ FanoutIdle
    /\ SinkInit /\ ShIdle /\ PublishIdle /\ ServerIdle
SinkNext ==
    /\ RunSinks
    /\ UNCHANGED <<now, msg_status, msg_body, seed_prs, pc, last_sqs_message, cur, last_poll,
                   idle_since, job, receives, deletes, builds>>
    /\ UNCHANGED <<gate_vars, watcher_vars, dispatch_vars, resolve_vars, fanout_vars, sh_vars,
                   pub_vars, srv_vars>>
SinkSpec == SinkSpecInit /\ [][SinkNext]_vars

\* One job from the start of sh to the next turn of the for loop of main, on the
\* report files a build can leave (one report.json, or none).
JobSinkInputs ==
    {i \in SinkInputs :
        i.report_json.exists =>
            /\ i.report_json.content["built"].v = <<"hello">>
            /\ i.report_json.content["failed"].v = <<>>}
JobSpecInit ==
    /\ now = 0 /\ msg_status = None /\ msg_body = None /\ seed_prs = None /\ pc = None
    /\ last_sqs_message = None /\ cur = None /\ last_poll = None /\ idle_since = None
    /\ job = None /\ receives = None /\ deletes = None /\ builds = None
    /\ GateIdle /\ WatcherIdle /\ DispatchIdle /\ ResolveIdle /\ FanoutIdle
    /\ SinkInit /\ sink_in \in JobSinkInputs /\ ShInit /\ PublishIdle /\ ServerIdle
JobNext ==
    /\ \/ \E n \in Jumps : SuperviseQuiet(n)
       \/ SuperviseExit
       \/ SuperviseTimeout
       \/ \E kind \in InterruptKinds, place \in InterruptPlaces :
              SuperviseInterrupt(kind, place)
       \/ JobUpload
       \/ \E ok \in BOOLEAN : JobCollectGarbage(ok)
    /\ UNCHANGED <<now, msg_status, msg_body, seed_prs, pc, last_sqs_message, cur, last_poll,
                   idle_since, job, receives, deletes, builds>>
    /\ UNCHANGED <<gate_vars, watcher_vars, dispatch_vars, resolve_vars, fanout_vars, pub_vars,
                   srv_vars>>
JobSpec == JobSpecInit /\ [][JobNext]_vars

\* Publishers on several machines, some of them for the same PR.
PublishSpecInit ==
    /\ WorkerIdle /\ GateIdle /\ WatcherIdle /\ DispatchIdle /\ ResolveIdle /\ FanoutIdle
    /\ SinkIdle /\ ShIdle /\ PublishInit /\ ServerIdle
PublishNext ==
    /\ \E p \in Publishers :
           \/ \E d \in Decisions : PublishGate(p, d)
           \/ PublishGateRaises(p)
           \/ AcquireLock(p)
           \/ PostResult(p)
           \/ ReleaseLock(p)
    /\ UNCHANGED <<worker_vars, gate_vars, watcher_vars, dispatch_vars, resolve_vars,
                   fanout_vars, sink_vars, sh_vars, srv_vars>>
PublishSpec == PublishSpecInit /\ [][PublishNext]_vars

\* The endpoint on every kind of request body, and the consumer of its queue.
ServerSpecInit ==
    /\ WorkerIdle /\ GateIdle /\ WatcherIdle /\ DispatchIdle /\ ResolveIdle /\ FanoutIdle
    /\ SinkIdle /\ ShIdle /\ PublishIdle /\ ServerInit
ServerNext ==
    /\ \/ \E body \in RequestBodies : HandleRequest(body)
       \/ \E status \in LookupStatuses : ServerGet(status)
    /\ UNCHANGED <<worker_vars, gate_vars, watcher_vars, dispatch_vars, resolve_vars,
                   fanout_vars, sink_vars, sh_vars, pub_vars>>
ServerSpec == ServerSpecInit /\ [][ServerNext]_vars

\* Either process of the system, the frontend or a pool of workers, each with
\* its own dry-run flag.
ProcessInit == Init \/ DispatchSpecInit
ProcessNext ==
    \/ dispatch_pc = None /\ Next
    \/ dispatch_pc # None /\ DispatchNext
ProcessSpec == ProcessInit /\ [][ProcessNext]_vars

(***************************************************************************)
(* Properties                                                              *)
(***************************************************************************)
Building(w) == pc[w] \in {"build", "supervise", "gc"}

\* C1: every message received from the queue is deleted exactly once, the
\* deletion precedes the start of the build for it (it is already deleted when
\* main gets the body), whatever the build's outcome, and no message is handed
\* out a second time.
C1_DeletedOnceBeforeBuild ==
    /\ \A m \in Msgs :
          /\ receives[m] <= 1
          /\ deletes[m] = receives[m]
          /\ builds[m] <= deletes[m]
          /\ receives[m] = 1 => msg_status[m] = "deleted"
    /\ \A w \in Workers :
          (Building(w) /\ cur[w].msg # NoMsg) =>
              /\ msg_status[cur[w].msg] = "deleted"
              /\ deletes[cur[w].msg] = 1

\* A build of a queue message ended by the overall timeout, the message
\* deleted once.
C1_Witness ==
    \E w \in Workers :
        /\ pc[w] = "gc"
        /\ cur[w].msg # NoMsg
        /\ job[w].returncode = -1
        /\ deletes[cur[w].msg] = 1
        /\ builds[cur[w].msg] = 1

\* C2: a poll issues the deprovision request if and only if it returned no
\* message and more than IDLE_CUTOFF has passed since the last non-empty poll
\* (since the polling loop started when there was none).
C2_DeprovisionIffIdle ==
    [][\A w \in Workers :
          last_poll'[w] # last_poll[w] =>
              (last_poll'[w].deprovisioned <=>
                  (last_poll'[w].count = 0 /\ now - idle_since[w] > IDLE_CUTOFF))]_vars

\* An empty poll that deprovisioned, after an earlier poll had returned a message.
C2_Witness ==
    \E w \in Workers :
        /\ last_poll[w].deprovisioned
        /\ last_poll[w].count = 0
        /\ \E m \in Msgs : receives[m] = 1
        /\ idle_since[w] > 0

PageIds(page) == {page[i].id : i \in DOMAIN page}

\* C3: after two consecutive 200 pages P1, P2 the events yielded for P2 are
\* those whose id is in P2 and not in P1, each id once.
C3_YieldsDifference ==
    (last_resp.status = 200 /\ Len(pages) = 2) =>
        /\ PageIds(yielded) = PageIds(pages[2]) \ PageIds(pages[1])
        /\ \A i, j \in DOMAIN yielded : i # j => yielded[i].id # yielded[j].id
        /\ \A i \in DOMAIN yielded : \E k \in DOMAIN pages[2] : pages[2][k] = yielded[i]

\* P2 shares an id with P1 and brings a new one, which is yielded.
C3_Witness ==
    /\ last_resp.status = 200
    /\ Len(pages) = 2
    /\ PageIds(pages[1]) \cap PageIds(pages[2]) # {}
    /\ Len(yielded) = 1
    /\ Len(pages[2]) = 2

Decided == gate_out # NoDecision

\* The checks in the words of the design, over the inputs of the decision.
OomSignal == upload_blocked_oom_or_enospc(gate_in)
EarlyOomSignal == upload_blocked_earlyoom(gate_in)
DiskOver95 == gate_in.disk_used * 100 > 95 * DISK_TOTAL
UnconditionalMatch ==
    <<OomSignal,
      EarlyOomSignal,
      DiskOver95 /\ gate_in.failed >= 1,
      gate_in.built + gate_in.failed = 0,
      gate_in.timed_out >= 1>>
UnconditionalName ==
    <<"OOM_ENOSPC", "EARLY_OOM", "DISK_FULL", "NO_PACKAGES_BUILT", "BUILD_TIMEOUT">>
NoUnconditional == \A i \in 1..5 : ~UnconditionalMatch[i]

HasBotComment == \E c \in gate_in.comments : c.login = BOT_LOGIN
NeedleSomewhere == gate_in.pr_data.needle \/ \E c \in gate_in.comments : c.needle
FirstPostMatch ==
    <<gate_in.built = 1 /\ gate_in.failed = 0 /\ gate_in.hammer_report = None,
      gate_in.pr_data.login \in GH_USER_BLOCKLIST /\ gate_in.failed = 0,
      gate_in.pr_data.state = "closed",
      NeedleSomewhere /\ gate_in.failed = 0 /\ gate_in.hammer_report = None>>
FirstPostName ==
    <<"SINGLE_CLEAN_PACKAGE", "AUTHOR_BLOCKLIST_CLEAN", "PR_CLOSED", "PREVIOUS_REVIEW">>
NoFirstPost == \A i \in 1..4 : ~FirstPostMatch[i]

\* C4: the decision is the reason of the lowest-numbered matching check among
\* OOM_ENOSPC, EARLY_OOM, DISK_FULL, NO_PACKAGES_BUILT, BUILD_TIMEOUT, whatever
\* the comments, the author, the proposal state and dry-run are.
C4_UnconditionalOrder ==
    Decided =>
        \A i \in 1..5 :
            (UnconditionalMatch[i] /\ \A j \in 1..(i - 1) : ~UnconditionalMatch[j]) =>
                gate_out = Decision("True", UnconditionalName[i])

\* Disk full and a timed-out unit at once, in dry-run, with a comment of the
\* bot: DISK_FULL is returned.
C4_Witness ==
    /\ Decided
    /\ ~UnconditionalMatch[1] /\ ~UnconditionalMatch[2]
    /\ UnconditionalMatch[3] /\ UnconditionalMatch[5]
    /\ gate_in.dry_run /\ HasBotComment
    /\ gate_out.blocked_reason = "DISK_FULL"

\* C5: on the first-post path with no unconditional check matching, the
\* decision is the reason of the first matching check among
\* SINGLE_CLEAN_PACKAGE, AUTHOR_BLOCKLIST_CLEAN, PR_CLOSED, PREVIOUS_REVIEW.
C5_FirstPostOrder ==
    (Decided /\ NoUnconditional /\ ~HasBotComment) =>
        \A i \in 1..4 :
            (FirstPostMatch[i] /\ \A j \in 1..(i - 1) : ~FirstPostMatch[j]) =>
                gate_out = Decision("True", FirstPostName[i])

\* One clean package of an opted-out author, the proposal closed and reviewed
\* before: SINGLE_CLEAN_PACKAGE.
C5_Witness ==
    /\ Decided /\ NoUnconditional /\ ~HasBotComment
    /\ \A i \in 1..4 : FirstPostMatch[i]
    /\ gate_out.blocked_reason = "SINGLE_CLEAN_PACKAGE"

\* C6: with a comment of the bot on the proposal, the decision is none of the
\* four first-post reasons; a block is one of the five unconditional reasons
\* or DRY_RUN.
C6_EditNeverFirstPostReason ==
    (Decided /\ HasBotComment) =>
        /\ \A i \in 1..4 : gate_out.blocked_reason # FirstPostName[i]
        /\ gate_out.result = "True" =>
               \/ gate_out.blocked_reason = "DRY_RUN"
               \/ \E i \in 1..5 : gate_out.blocked_reason = UnconditionalName[i]

\* An edit where all four first-post checks would match is not blocked.
C6_Witness ==
    /\ Decided /\ HasBotComment /\ NoUnconditional
    /\ \A i \in 1..4 : FirstPostMatch[i]
    /\ gate_out = Decision("False", None)

\* C7 as stated: in dry-run with no unconditional check matching the decision
\* is DRY_RUN.
C7_Original ==
    (Decided /\ gate_in.dry_run /\ NoUnconditional) =>
        gate_out = Decision("True", "DRY_RUN")

\* C7 amended: in dry-run, with no unconditional check matching and, on the
\* first-post path, none of the four first-post checks matching either, the
\* decision is DRY_RUN.
C7_DryRunLast ==
    (Decided /\ gate_in.dry_run /\ NoUnconditional /\ (HasBotComment \/ NoFirstPost)) =>
        gate_out = Decision("True", "DRY_RUN")

\* A first post of a fully successful report of two units, in dry-run.
C7_Witness ==
    /\ Decided /\ gate_in.dry_run /\ NoUnconditional /\ ~HasBotComment /\ NoFirstPost
    /\ gate_in.built = 2 /\ gate_in.failed = 0 /\ gate_in.timed_out = 0
    /\ gate_out.blocked_reason = "DRY_RUN"

\* A step of the main loop that dispatched a resolved evaluation.
DispatchStep == last_dispatch'.n # last_dispatch.n /\ last_dispatch'.resolved
Units(d, sys) == Get(d.packages_per_system, sys, {})
Sent(sys) == Len(sqs_queues'.q[sys]) - Len(sqs_queues.q[sys])

\* C8: outside dry mode, a dispatch sends exactly one message, carrying the
\* proposal number and the evaluation url, to the queue of each known
\* architecture whose unit set is non-empty and checks its acknowledgment; it
\* sends nothing to, and checks nothing for, an architecture with no units.
C8_MessageIffUnits ==
    [][(DispatchStep /\ ~sqs_queues.none) =>
          \A sys \in ALL_BUILD_SYSTEMS :
              IF Units(last_dispatch', sys) # {}
              THEN /\ sqs_queues'.q[sys] =
                          Append(sqs_queues.q[sys],
                                 [pr |-> last_dispatch'.pr, ofborg_url |-> last_dispatch'.url])
                   /\ sys \in last_dispatch'.checked
              ELSE /\ sqs_queues'.q[sys] = sqs_queues.q[sys]
                   /\ sys \notin last_dispatch'.checked]_vars

\* A dispatch that sent to one architecture and not to the other, whose only
\* listed unit is on the blocklist or which is not listed at all.
C8_Witness ==
    /\ last_dispatch.resolved /\ ~sqs_queues.none
    /\ last_dispatch.n = 1
    /\ \E a, b \in ALL_BUILD_SYSTEMS :
          /\ Len(sqs_queues.q[a]) = 1 /\ Len(sqs_queues.q[b]) = 0
          /\ Units(last_dispatch, a) # {} /\ Units(last_dispatch, b) = {}

BadAcks(d) == {sys \in ALL_BUILD_SYSTEMS : Units(d, sys) # {} /\ d.acks[sys] # 200}

\* C9: when a send is acknowledged with a non-success code, the error is
\* logged once per such acknowledgment, no send is repeated, every
\* architecture with units still gets its send, and the main loop stays alive.
C9_BadAckOnlyLogged ==
    [][(DispatchStep /\ ~sqs_queues.none /\ BadAcks(last_dispatch') # {}) =>
          /\ \A sys \in ALL_BUILD_SYSTEMS :
                Sent(sys) = IF Units(last_dispatch', sys) # {} THEN 1 ELSE 0
          /\ error_log' = error_log + Cardinality(BadAcks(last_dispatch'))
          /\ dispatch_pc' = "loop"]_vars

\* A second evaluation dispatched to both architectures after the first one
\* had a send refused.
C9_Witness ==
    /\ last_dispatch.n = 2 /\ last_dispatch.resolved
    /\ BadAcks(last_dispatch) = {}
    /\ error_log = 1
    /\ \A sys \in ALL_BUILD_SYSTEMS : Len(sqs_queues.q[sys]) = 2

IsPrefix(a, b) == Len(a) <= Len(b) /\ \A i \in DOMAIN a : b[i] = a[i]

\* C10 as stated: every dispatch of a resolved evaluation adds exactly one row.
C10_Original ==
    [][DispatchStep => Len(dispatched_rows') = Len(dispatched_rows) + 1]_vars

\* C10 amended: a dispatch of a resolved evaluation adds exactly one row, with
\* the proposal number, the evaluation url and the unit count of each listed
\* architecture, when there is a database connection (there always is one
\* outside dry mode) and no row without one; no other step adds a row, and no
\* row already written changes.
C10_OneRecordWhenConnected ==
    [][/\ IsPrefix(dispatched_rows, dispatched_rows')
       /\ IF DispatchStep /\ conn
          THEN /\ Len(dispatched_rows') = Len(dispatched_rows) + 1
               /\ LET row == dispatched_rows'[Len(dispatched_rows')]
                      d == last_dispatch'
                  IN  /\ row.pull_request_number = d.pr
                      /\ row.ofborg_eval_url = d.url
                      /\ DOMAIN row.num_packages = DOMAIN d.packages_per_system
                      /\ \A k \in DOMAIN row.num_packages :
                            row.num_packages[k] = Cardinality(d.packages_per_system[k])
          ELSE dispatched_rows' = dispatched_rows
       /\ (dispatch_pc = "loop" /\ ~dry) => conn]_vars

\* Two evaluations dispatched, two rows.
C10_Witness ==
    /\ last_dispatch.n = 2 /\ last_dispatch.resolved
    /\ Len(dispatched_rows) = 2
    /\ \E k \in DOMAIN dispatched_rows[1].num_packages : dispatched_rows[1].num_packages[k] = 1

RECURSIVE SumOver(_, _)
SumOver(f, S) ==
    IF S = {} THEN 0
    ELSE LET k == CHOOSE x \in S : TRUE IN f[k] + SumOver(f, S \ {k})

\* The record of the last dispatch, when one was written.
LastRow == dispatched_rows[Len(dispatched_rows)]
Recorded == last_dispatch.resolved /\ conn /\ dispatched_rows # <<>>
CountSum == SumOver(LastRow.num_packages, DOMAIN LastRow.num_packages)
\* The unit names of the evaluation, whatever the architecture.
UnitNames(d) == UNION {d.packages_per_system[k] : k \in DOMAIN d.packages_per_system}
\* The (architecture, unit) pairs the artifact lists, the ignored units left out.
ListedPairs(d) ==
    {<<d.lines[i].system, d.lines[i].attribute>> :
        i \in {j \in DOMAIN d.lines : d.lines[j].attribute \notin BLACKLISTED_ATTRS}}

\* C11 as stated: the per-architecture counts of the record sum to the number
\* of distinct units (a unit being identified by its name) over all the
\* architecture sets of the evaluation.
C11_Original ==
    Recorded => CountSum = Cardinality(UnitNames(last_dispatch))

\* C11 amended: the per-architecture counts of the record sum to the number of
\* distinct (architecture, unit) pairs listed by the artifact, each count being
\* the size of its architecture's set: a pair listed twice is counted once, no
\* listed pair is left out, and a unit listed for two architectures is counted
\* for each of them.
C11_CountsSumToPairs ==
    Recorded =>
        /\ CountSum = Cardinality(ListedPairs(last_dispatch))
        /\ \A k \in DOMAIN LastRow.num_packages :
              LastRow.num_packages[k] =
                  Cardinality({p \in ListedPairs(last_dispatch) : p[1] = k})
        /\ \A p \in ListedPairs(last_dispatch) : p[1] \in DOMAIN LastRow.num_packages

\* A record of an evaluation that lists the same unit for two architectures.
C11_Witness ==
    /\ Recorded
    /\ Cardinality(UnitNames(last_dispatch)) = 1
    /\ CountSum = 2

Returned == res_pc = "returned"
ContainsSuccessWithTarget(rjson) ==
    \E i \in DOMAIN rjson : IsOfborgSuccess(rjson[i]) /\ rjson[i].target_url # ""
Decisive(status) == IsOfborgSuccess(status) \/ IsOfborgFailure(status)
\* The position of the first success or fixed-description failure status of the
\* evaluator, 0 when the list has none.
FirstDecisive(rjson) ==
    IF \E i \in DOMAIN rjson : Decisive(rjson[i])
    THEN CHOOSE i \in DOMAIN rjson :
             Decisive(rjson[i]) /\ \A j \in 1..(i - 1) : ~Decisive(rjson[j])
    ELSE 0

\* C12 as stated: the resolver returns an evaluation if and only if the status
\* list it fetched contains the evaluator's success status with a non-empty
\* target.
C12_Original ==
    Returned =>
        (~res_result.none <=>
            (res_seen.fetched /\ ContainsSuccessWithTarget(res_seen.rjson)))

C12_Decision ==
    /\ Returned => (res_seen.fetched \/ res_seen.verdict = "timeout")
    /\ (Returned /\ res_seen.verdict = "timeout") => res_result.none
    /\ (res_pc \in {"returned", "sleep"} /\ res_seen.fetched) =>
          LET rjson == res_seen.rjson
              i == FirstDecisive(rjson)
          IN  IF i = 0 THEN res_pc = "sleep" /\ res_result.none
              ELSE /\ res_pc = "returned"
                   /\ IF IsOfborgSuccess(rjson[i]) /\ rjson[i].target_url # ""
                      THEN /\ ~res_result.none
                           /\ res_result.url = rjson[i].target_url
                           /\ res_result.packages_per_system =
                                  get_ofborg_gist_data(res_seen.lines)
                      ELSE res_result.none

\* C12 amended: the first status of the list, in list order, that is the
\* evaluator's success or its failure with the fixed description decides: an
\* evaluation (the target and the units of its artifact) for a success with a
\* non-empty target, none for a success with an empty target or for the
\* failure, also when a success with a target follows later in the list; none
\* on timeout; with no such status the resolver sleeps the default interval and
\* fetches again without returning.
C12_FirstDecisiveStatus ==
    /\ []C12_Decision
    /\ [][res_pc = "sleep" =>
             /\ res_pc' = "fetch"
             /\ res_now' = res_now + default_poll_interval
             /\ res_result' = res_result]_vars

\* After one sleep, a list whose failure status precedes a success status with
\* a target: none is returned.
C12_Witness ==
    /\ Returned /\ res_seen.fetched /\ res_result.none
    /\ res_now = default_poll_interval
    /\ Len(res_seen.rjson) = 2
    /\ IsOfborgFailure(res_seen.rjson[1])
    /\ IsOfborgSuccess(res_seen.rjson[2]) /\ res_seen.rjson[2].target_url = "gist"

Overrun == res_now - timeout_deadline
ReturnedOnTimeout == Returned /\ res_seen.verdict = "timeout"

\* C13 as stated: a resolution that times out returns at most one poll
\* interval after the deadline.
C13_Original == ReturnedOnTimeout => Overrun <= default_poll_interval

C13_AtReturn ==
    ReturnedOnTimeout =>
        /\ res_result.none
        /\ ~res_seen.fetched
        /\ Overrun > 0
        /\ Overrun <= default_poll_interval + res_seen.fetch_time
        /\ res_seen.fetch_time <= 2 * FetchTime

\* C13 amended: every resolution returns in the end; an iteration that starts
\* after the deadline returns none right after its proposal fetch, without
\* fetching the status list, whatever the proposal is (draft, malformed,
\* open); the deadline, fixed when the resolution starts, is looked at once per
\* iteration, so the return comes at most one poll interval plus the time of
\* the requests made since the deadline was last looked at (the status fetch of
\* the previous iteration and the proposal fetch of this one) after the
\* deadline.
C13_TerminatesByDeadline ==
    /\ []C13_AtReturn
    /\ [][/\ timeout_deadline' = timeout_deadline
          /\ (res_pc = "fetch" /\ res_now > timeout_deadline) =>
                 /\ res_pc' = "returned"
                 /\ res_result'.none
                 /\ res_seen'.verdict = "timeout"]_vars
    /\ <>Returned

\* A draft still unresolved when the deadline passes: none is returned, more
\* than one poll interval after the deadline.
C13_Witness ==
    /\ ReturnedOnTimeout
    /\ res_seen.pr = "draft"
    /\ Overrun > default_poll_interval

\* C14: a resolution that is still polling blocks nothing: while events may
\* still arrive either source can yield the next one, every polling resolution
\* can return whatever the others do, the oldest returned result can be taken
\* by the main loop, and the main loop takes the results in the order the
\* resolutions returned, which need not be the order of the events.
C14_IndependentTasks ==
    /\ Cardinality(Arrived) < MaxEvents =>
          \A source \in EventSources : ENABLED Discover(source)
    /\ \A e \in EventNums : task_state[e] = "polling" => ENABLED Resolve(e)
    /\ Pending # <<>> => ENABLED Consume(Head(Pending))
    /\ IsPrefix(dispatch_order, completion_order)

\* The first event is still being polled for, after several sleeps, while the
\* two later ones, the third from the other source, were dispatched, the
\* third before the second.
C14_Witness ==
    /\ task_state[1] = "polling" /\ task_polls[1] = MaxPolls
    /\ dispatch_order = <<3, 2>>
    /\ task_source[3] # task_source[1]

SubprocessReturned(w) == job[w].s3 # "none"

\* C15 as stated: once the supervised subprocess has returned, whatever its
\* return code, both sinks have been run, whatever the first one did.
C15_Original ==
    \A w \in Workers :
        SubprocessReturned(w) => job[w].ran = {"upload_s3", "upload_postgres"}

SinksDone == sink_out # NoSinks
ReportMissing == ~sink_in.report_json.exists

\* C16 as stated: the sinks raise nothing when a report file is missing, the
\* artifact upload is skipped without report.md, and the row step inserts a
\* "crashed" row with a null report when report.json is missing and a
\* "success" row otherwise.
C16_Original ==
    (SinksDone /\ "upload_postgres" \in sink_out.ran) =>
        /\ sink_out.row.state = IF ReportMissing THEN "crashed" ELSE "success"
        /\ ~sink_in.report_md => (sink_out.s3 = "skipped" /\ ~sink_out.raised)

\* C16 amended: a missing report file makes no sink raise (only a failing
\* upload does); upload_s3 skips when report.md is missing; with a database url
\* upload_postgres inserts one row, "crashed" with a null report when
\* report.json is missing, else "success" with every list of the report
\* replaced by its length, the hammer text left out and the other values
\* kept; without a database url it inserts nothing. The state of a row is
\* success or crashed.
C16_SinksDegrade ==
    SinksDone =>
        /\ sink_out.raised <=> (sink_in.report_md /\ ~dry_run /\ ~sink_in.s3_ok)
        /\ ~sink_in.report_md => sink_out.s3 = "skipped"
        /\ ~sink_out.raised =>
              IF ~database_url THEN sink_out.row = NoRow
              ELSE IF ReportMissing
                   THEN sink_out.row = [state |-> "crashed", report |-> "null"]
                   ELSE LET content == sink_in.report_json.content
                            stored == sink_out.row.report
                        IN  /\ sink_out.row.state = "success"
                            /\ DOMAIN stored = {"built", "failed", "pr"}
                            /\ stored["built"] = Len(content["built"].v)
                            /\ stored["failed"] = Len(content["failed"].v)
                            /\ stored["pr"] = content["pr"].v
        /\ sink_out.row.state \in {"none", "success", "crashed"}

\* A build that left no report at all, with a database: the upload is
\* skipped and a crashed row is stored.
C16_Witness ==
    /\ SinksDone /\ database_url
    /\ ~sink_in.report_md /\ ReportMissing
    /\ sink_out.s3 = "skipped"
    /\ sink_out.row = [state |-> "crashed", report |-> "null"]

ShReturned == sh_ret # NoReturn
TimeoutExpired == sh_elapsed > NIXPKGS_REVIEW_TIMEOUT
StillRunning == ~Exited(sh_elapsed)

\* C17: when the 130 minutes expire with the subprocess still running and
\* no interrupt, sh ends the subprocess and returns -1 without raising, and it
\* returns -1 in no other case; build_pr then runs the sinks on the report
\* files exactly as after any other return code (what they do is a function
\* of the files, the dry-run flag and the database url alone), and after the
\* sinks the for loop of main can go on to the next message.
C17_TimeoutIsAFailure ==
    /\ (sh_pc # "loop" /\ ~pruned /\ TimeoutExpired /\ StillRunning) =>
           /\ ShReturned /\ sh_ret = TimeoutCode
           /\ proc.killed
    /\ sh_ret = TimeoutCode => (TimeoutExpired /\ StillRunning /\ ~pruned)
    /\ sh_pc = "returned" => ENABLED JobUpload
    /\ (ShReturned /\ sh_pc # "returned") =>
           LET s3 == S3Outcome(sink_in.report_md, sink_in.s3_ok)
           IN  /\ sink_out.s3 = s3
               /\ s3 # "failed" =>
                      /\ sink_out.ran = {"upload_s3", "upload_postgres"}
                      /\ sink_out.row = FinishedRow(sink_in.report_json)
               /\ sh_pc \in {"uploaded", "next"} => s3 # "failed"
    /\ sh_pc = "uploaded" => ENABLED (JobCollectGarbage(TRUE) /\ sh_pc' = "next")

\* A subprocess that never exits: sh killed it and returned -1 after 130
\* minutes, both sinks ran (no report: a crashed row), garbage was collected
\* and the loop is back at its head.
C17_Witness ==
    /\ sh_ret = TimeoutCode /\ proc.killed /\ ~proc.exits
    /\ sh_pc = "next" /\ ~dry_run /\ database_url
    /\ sink_out.ran = {"upload_s3", "upload_postgres"}
    /\ sink_out.row.state = "crashed"

Posting(p) == pub[p].pc \in {"post", "sleep"}

\* C18: a publisher is in the post-result call or its settle delay only as
\* the holder of the lock of its own PR; no two publishers of the same PR are
\* there together; a publisher that asked for the lock stays waiting exactly
\* as long as another publisher of its PR is there; and a publisher that is
\* through holds no lock.
C18_PostUnderLock ==
    /\ \A p \in Publishers : Posting(p) => locks[pub[p].pr] = p
    /\ \A p, q \in Publishers :
           (p # q /\ Posting(p) /\ Posting(q)) => pub[p].pr # pub[q].pr
    /\ \A p \in Publishers :
           pub[p].pc = "acquire" =>
               (ENABLED AcquireLock(p) <=>
                    ~\E q \in Publishers : q # p /\ pub[q].pr = pub[p].pr /\ Posting(q))
    /\ \A k \in LockKeys :
           locks[k] # NoHolder => (Posting(locks[k]) /\ pub[locks[k]].pr = k)

\* Two publishers of one PR, one in its settle delay and one waiting for the
\* lock, while a publisher of another PR is in its own post-result call.
C18_Witness ==
    \E p, q, r \in Publishers :
        /\ pub[p].pr = pub[q].pr /\ pub[r].pr # pub[p].pr
        /\ pub[p].pc = "sleep" /\ pub[q].pc = "acquire" /\ pub[r].pc = "post"

Answered == srv_last.answer.status # 0
PrIsInteger(body) == body.t = "dict" /\ body.pr.t = "int"

\* C19 as stated: every POST / is answered with 400 when the body is not
\* valid JSON, with 422 when it is valid JSON whose field pr is missing or is
\* not an integer, and with 200 and {"status": "ok"} otherwise; the request
\* puts one number on the queue when the answer is 200 and nothing otherwise.
C19_Original ==
    Answered =>
        LET body == srv_last.body
            answer == srv_last.answer
        IN  /\ answer.status \in {400, 422, 200}
            /\ answer.status = 400 <=> ~body.valid
            /\ answer.status = 422 <=> (body.valid /\ ~PrIsInteger(body))
            /\ answer.status = 200 => answer.body = "ok"
            /\ Len(answer.put) = (IF answer.status = 200 THEN 1 ELSE 0)

FrontendRuns == dispatch_pc # None
WorkersRun == ~FrontendRuns
NothingSent == \A sys \in ALL_BUILD_SYSTEMS : sqs_queues.q[sys] = <<>>
NoScalingCall == \A w \in Workers : ~last_poll[w].deprovisioned
NoBucketUpload == \A w \in Workers : job[w].s3 \notin {"uploaded", "failed"}

\* C20 as stated: in dry-run mode the frontend sends no queue message, no
\* worker makes a deprovision call, and no sink uploads a build result,
\* neither to the bucket nor to the results table.
C20_Original ==
    /\ (FrontendRuns /\ dry) => NothingSent
    /\ (WorkersRun /\ dry_run) =>
           /\ NoScalingCall
           /\ NoBucketUpload
           /\ \A w \in Workers : job[w].row = "none"

\* C20 amended: in dry-run mode the frontend sends no queue message, no
\* worker polls the queue or makes a deprovision call, and nothing is uploaded
\* to the bucket; the database is not covered by the flag: the frontend writes
\* its dispatch records, and upload_postgres its result row, exactly when a
\* database url is configured.
C20_DryRunSuppresses ==
    /\ (FrontendRuns /\ dry) =>
           /\ NothingSent
           /\ dispatched_rows # <<>> => conn
           /\ (last_dispatch.n > 0 /\ last_dispatch.resolved /\ conn) => dispatched_rows # <<>>
    /\ (WorkersRun /\ dry_run) =>
           /\ NoScalingCall
           /\ \A m \in Msgs : receives[m] = 0
           /\ NoBucketUpload
           /\ \A w \in Workers :
                  /\ job[w].row # "none" => database_url
                  /\ ("upload_postgres" \in job[w].ran /\ database_url) => job[w].row # "none"

\* A dry-run worker with a database url after a seeded build that left both
\* report files: nothing went to the bucket, a success row was inserted.
C20_Witness ==
    /\ WorkersRun /\ dry_run /\ database_url
    /\ \E w \in Workers :
           /\ pc[w] = "gc"
           /\ job[w].s3 = "dry"
           /\ job[w].row = "success"

WatcherNotStarted == last_resp.status = 0

\* C21: the watcher is ended by a 401 and by nothing else; after any
\* other status that is not 200 it has yielded nothing in that round and
\* sleeps for X-Poll-Interval, or 60 seconds without that header, after which
\* it polls again; whenever it is not ended it can go on.
C21_OnlyUnauthorizedIsFatal ==
    /\ watcher_pc = "dead" <=> (~WatcherNotStarted /\ last_resp.status = 401)
    /\ watcher_pc = "dead" => ~ENABLED WatcherNext
    /\ (watcher_pc = "sleep" /\ last_resp.status # 200) =>
           /\ yielded = <<>>
           /\ sleep_time = IF last_resp.headers.has_interval
                           THEN last_resp.headers.interval ELSE 60
    /\ watcher_pc = "sleep" => ENABLED (WatcherWake /\ watcher_pc' = "poll")
    /\ watcher_pc = "poll" =>
           \A resp \in FeedResponses : ENABLED WatcherPoll(resp)

\* After a first page, a 500 without X-Poll-Interval: nothing yielded, the
\* window kept, a sleep of 60 seconds.
C21_Witness ==
    /\ watcher_pc = "sleep" /\ last_resp.status = 500
    /\ ~last_resp.headers.has_interval /\ sleep_time = 60
    /\ ~prv_events.none /\ prv_events.dict # <<>>
    /\ yielded = <<>>

\* C22 as stated: a worker whose last poll issued the deprovision request is
\* still in its polling loop, whatever the request's outcome (it may be
\* killed from outside, as at any other time).
C22_Original ==
    \A w \in Workers :
        last_poll[w].deprovisioned => pc[w] \in {"poll", "killed"}

HandedTo(m) == {w \in Workers : cur[w].msg = m}

\* C23: no message has more than one build started for it, by any worker;
\* a message handed to a worker is handed to no other and can be received by
\* none again, also after its build timed out, left the worker crashed or the
\* worker was killed.
C23_NoRetry ==
    \A m \in Msgs :
        /\ builds[m] <= 1
        /\ Cardinality(HandedTo(m)) <= 1
        /\ (builds[m] = 1 \/ HandedTo(m) # {}) =>
               /\ ~Receivable(m)
               /\ \A w \in Workers : ~ENABLED PollMessage(w, m)

\* A worker crashed in the upload after the build of a message; the other
\* worker polls the queue and the message is not there to be received.
C23_Witness ==
    \E m \in Msgs, w, v \in Workers :
        /\ w # v
        /\ cur[w].msg = m /\ builds[m] = 1
        /\ pc[w] = "crashed" /\ job[w].s3 = "failed"
        /\ pc[v] = "poll" /\ last_poll[v].count = 0 /\ last_poll[v].seq = 1
        /\ ~Receivable(m)

TransientLookupError == srv_last.lookup \in {403, 500}

\* C24 as stated, for the lookup of a submitted number: a rate-limit or
\* server-error answer does not end aiter_server_events.
C24_Original == TransientLookupError => srv.pc # "raised"

\* C25: the stored window holds exactly the ids of the last 200 page, so
\* after two consecutive 200 pages P1, P2 every id of P2 that is not in P1 is
\* yielded, whether or not it was yielded in an earlier round.
C25_WindowReplaced ==
    /\ prv_events.none <=> pages = <<>>
    /\ ~prv_events.none => Keys(prv_events.dict) = PageIds(pages[Len(pages)])
    /\ (last_resp.status = 200 /\ Len(pages) = 2) =>
           \A id \in PageIds(pages[2]) \ PageIds(pages[1]) : id \in Keys(yielded)

\* An id on a page, gone from the next page and back on the one after it: it
\* is yielded a second time.
C25_Witness ==
    /\ last_resp.status = 200 /\ Len(pages) = 2
    /\ \E id \in Keys(yielded) : id \in yielded_before /\ id \notin PageIds(pages[1])

ClockChanged(w) == last_sqs_message'[w] # last_sqs_message[w]
Polled(w) == last_poll'[w] # last_poll[w]

\* C26: once iter_sqs has set a worker's idle clock at its start, the clock
\* changes only in a poll that returns a message, and is then the time of
\* that poll; an empty poll (with or without a deprovision request), the
\* start and the end of a build, the garbage collection and the passing of
\* time leave it as it is.
C26_ClockFrame ==
    [][\A w \in Workers :
          /\ (ClockChanged(w) /\ last_sqs_message[w] # NoTime) =>
                 (Polled(w) /\ last_poll'[w].count > 0 /\ last_sqs_message'[w] = now)
          /\ (Polled(w) /\ last_poll'[w].count = 0 /\ last_sqs_message[w] # NoTime) =>
                 ~ClockChanged(w)
          /\ pc[w] \in {"build", "supervise", "gc"} => ~ClockChanged(w)]_vars

\* A worker still supervising the build of a message it received more than
\* IDLE_CUTOFF ago, its clock still at the time of that poll.
C26_Witness ==
    \E w \in Workers :
        /\ pc[w] = "supervise" /\ cur[w].msg # NoMsg
        /\ last_sqs_message[w] = idle_since[w]
        /\ now - last_sqs_message[w] > IDLE_CUTOFF

NotReadySeen == res_seen.pr \in {"draft", "malformed"}

\* C27 as stated: an iteration that sees a draft, or a proposal answer without
\* the status-list field, fetches no status list, returns nothing and ends in
\* the sleep that precedes the next iteration.
C27_Original ==
    NotReadySeen =>
        /\ ~res_seen.fetched
        /\ res_result = NoEval
        /\ res_pc = "sleep"

\* C27 amended: such an iteration fetches no status list and returns no
\* evaluation; when the deadline has passed at its fetch it returns none, and
\* otherwise it sleeps the default interval and a new iteration starts. An
\* evaluation is returned only from an iteration that saw an open proposal.
C27_NotReadySleepsOrTimesOut ==
    /\ NotReadySeen =>
           /\ ~res_seen.fetched
           /\ res_result = NoEval
           /\ \/ /\ res_pc = "returned"
                 /\ res_seen.verdict = "timeout"
                 /\ res_now > timeout_deadline
              \/ /\ res_pc = "sleep"
                 /\ res_now <= timeout_deadline
                 /\ ENABLED (ResolveWake /\ res_pc' = "fetch"
                                /\ res_now' = res_now + default_poll_interval)
    /\ ~res_result.none => (res_seen.pr = "open" /\ res_seen.fetched)

\* A draft seen in a later iteration, before the deadline: the resolver sleeps.
C27_Witness ==
    /\ res_seen.pr = "draft" /\ res_pc = "sleep"
    /\ res_now > default_poll_interval
    /\ ~res_seen.fetched /\ res_result = NoEval

Interrupted == sh_pc = "raised" /\ sh_ret = NoReturn

\* C28 as stated: when supervision was ended by an interrupt, the work
\* trees were pruned before the interrupt left sh.
C28_Original == Interrupted => pruned

CanPoll(w) ==
    \/ \E m \in Msgs : ENABLED PollMessage(w, m)
    \/ \E outcome \in {"ok", "error"} : ENABLED PollEmpty(w, outcome)

\* C29: a worker with a job in hand (about to build, supervising, or at the
\* garbage collection that follows the uploads) cannot poll, receive or
\* delete; the garbage collection comes after build_pr has run its sinks and
\* can fail only outside dry-run, where it is skipped; and a worker that is
\* at its poll or asks source() for the next seed has no job left.
C29_OneJobAtATime ==
    \A w \in Workers :
        /\ Building(w) => (~CanPoll(w) /\ cur[w] # NoJob)
        /\ pc[w] = "gc" =>
               /\ job[w].ran = {"upload_s3", "upload_postgres"}
               /\ ENABLED (CollectGarbage(w, TRUE) /\ pc'[w] = AfterJob(w))
               /\ ENABLED (CollectGarbage(w, FALSE) /\ pc'[w] = "crashed") <=> ~dry_run
        /\ pc[w] \in {"build", "supervise"} => job[w] = NoResult
        /\ pc[w] \in {"poll", "source"} => (cur[w] = NoJob /\ job[w] = NoResult)

\* A worker back at its poll after the build of a message and the garbage
\* collection, while the other worker is supervising a seeded build.
C29_Witness ==
    \E w, v \in Workers, m \in Msgs :
        /\ pc[w] = "poll" /\ builds[m] = 1 /\ last_poll[w].count = 1
        /\ cur[w] = NoJob
        /\ pc[v] = "supervise" /\ cur[v].msg = NoMsg

\* C30: in the post-build step nixpkgs-review post-result is called if and
\* only if is_blocked answered False. A blocked answer is not an error: the
\* step ends normally in the same decision with report.json written back.
\* In the written report uploaded is true exactly when the answer was not
\* blocked, and blocked_reason is present exactly when it was blocked.
Persisted(p) == pub[p].pc = "done"
C30_BlockedSkipsPublish ==
    \A p \in Publishers :
        /\ pub[p].posted => pub[p].blocked = "False"
        /\ pub[p].blocked = "True" => Persisted(p)
        /\ pub[p].pc = "raised" => pub[p].blocked = "pending"
        /\ pub[p].blocked_reason # None <=> pub[p].blocked = "True"
        /\ Persisted(p) =>
               /\ pub[p].posted <=> pub[p].blocked = "False"
               /\ pub[p].uploaded <=> pub[p].blocked = "False"
C30_Witness ==
    \E p, q \in Publishers :
        /\ Persisted(p) /\ pub[p].blocked = "True" /\ ~pub[p].posted
        /\ pub[p].blocked_reason = "DRY_RUN" /\ pub[p].uploaded = FALSE
        /\ Persisted(q) /\ pub[q].blocked = "False" /\ pub[q].posted
        /\ pub[q].blocked_reason = None /\ pub[q].uploaded = TRUE

\* C31: the evaluation handed to the dispatcher maps each architecture to the
\* unit names the artifact lists for it, the two ignored names left out: no
\* ignored name is in any set, every other listed unit is in the set of its
\* own architecture and in no set of an architecture it was not listed for.
\* An architecture all of whose units are ignored has no key (an empty set
\* when asked for with a default).
ListedFor(lines, sys) == {lines[i].attribute : i \in {j \in DOMAIN lines : lines[j].system = sys}}
C31_ListedMinusIgnored ==
    last_dispatch.resolved =>
        LET d == last_dispatch
        IN  /\ \A sys \in GistSystems :
                   Units(d, sys) = ListedFor(d.lines, sys) \ BLACKLISTED_ATTRS
            /\ \A sys \in DOMAIN d.packages_per_system :
                   /\ sys \in GistSystems
                   /\ d.packages_per_system[sys] # {}
                   /\ d.packages_per_system[sys] \cap BLACKLISTED_ATTRS = {}
\* Two architectures list a unit each, one of them an ignored name.
C31_Witness ==
    /\ last_dispatch.resolved
    /\ Len(last_dispatch.lines) = 2
    /\ last_dispatch.lines[1].system = "x86_64-linux"
    /\ last_dispatch.lines[1].attribute = "tests.nixos-functions.nixosTest-test"
    /\ last_dispatch.lines[2].system = "x86_64-darwin"
    /\ last_dispatch.lines[2].attribute = "hello"
    /\ DOMAIN last_dispatch.packages_per_system = {"x86_64-darwin"}

\* C32: the first 200 page after the watcher starts yields nothing and only
\* becomes the window; an event of that page is not yielded as long as every
\* 200 page since has held it, so it can be yielded only after it was
\* missing from a page and came back.
FirstPageOnly == Len(pages) <= 1
C32_FirstPageIsBaseline ==
    /\ FirstPageOnly => (yielded = <<>> /\ yielded_before = {})
    /\ Len(pages) = 0 => (prv_events.none /\ startup_held = {})
    /\ Len(pages) = 1 =>
           /\ ~prv_events.none
           /\ prv_events.dict = CurEvents(pages[1])
           /\ startup_held = Keys(prv_events.dict)
    /\ Keys(yielded) \cap startup_held = {}
    /\ startup_held \subseteq Keys(prv_events.dict)
\* A later 200 page yields a new event while an event of the first page,
\* held by every page since, is in it and is not yielded.
C32_Witness ==
    /\ Len(pages) = 2 /\ last_resp.status = 200 /\ watcher_pc = "sleep"
    /\ startup_held # {} /\ yielded # <<>>
    /\ startup_held \subseteq Keys(CurEvents(pages[2]))

\* C33: a response that is not a 200 yields nothing and leaves the stored
\* window as the last 200 page made it; the events yielded for a 200 page are
\* those of the page whose id is not on the 200 page before it, in page
\* order, however many other responses came between the two.
LastPage == pages[Len(pages)]
C33_WindowSurvivesErrors ==
    /\ (last_resp.status \notin {0, 200}) =>
           /\ non200_run >= 1
           /\ yielded = <<>>
           /\ prv_events.none <=> pages = <<>>
           /\ ~prv_events.none => prv_events.dict = CurEvents(LastPage)
    /\ (last_resp.status = 200 /\ Len(pages) = 2) =>
           yielded = NewEvents(CurEvents(pages[2]), CurEvents(pages[1]))
\* Two responses that are not 200 between two 200 pages, and the second page
\* yields its new event while the one it shares with the first is held back.
C33_Witness ==
    /\ last_resp.status = 200 /\ Len(pages) = 2
    /\ non200_run = 2
    /\ Len(pages[2]) = 2 /\ Len(yielded) = 1
    /\ Keys(CurEvents(pages[1])) \cap Keys(CurEvents(pages[2])) # {}

\* C34 as stated: a worker whose last poll issued the deprovision request
\* (and that was not killed from outside) polls on: its next empty poll
\* issues the request again, and a message that is on the queue by then is
\* received and deleted by this worker and handed to its build.
C34_Original ==
    \A w \in Workers :
        (last_poll[w].deprovisioned /\ pc[w] # "killed") =>
            /\ ENABLED (PollEmpty(w, "ok") /\ last_poll'[w].deprovisioned)
            /\ \A m \in Msgs :
                   (Receivable(m) /\ msg_body[m].ok) =>
                       ENABLED (PollMessage(w, m) /\ msg_status'[m] = "deleted"
                                    /\ pc'[w] = "build" /\ cur'[w].msg = m)

\* C35: the state of the row written for a finished job is "success" when
\* report.json is there at the end of the job and "crashed" when it is not,
\* whatever sh returned (0, another exit code, or -1 for the timeout); every
\* return code can go with either state.
RowWritten(w) == "upload_postgres" \in job[w].ran /\ database_url
C35_RowFollowsReportFile ==
    \A w \in Workers :
        /\ RowWritten(w) =>
               /\ job[w].row = IF job[w].report_json THEN "success" ELSE "crashed"
               /\ job[w].returncode \in ReturnCodes
        /\ pc[w] = "supervise" =>
               \A rc \in ReturnCodes, js \in BOOLEAN :
                   ENABLED (BuildReturn(w, rc, TRUE, js, TRUE) /\ job'[w].returncode = rc
                                /\ job'[w].row = RowState(js))
\* At the same time one worker has a "success" row after the timeout and the
\* other a "crashed" row after exit code 0.
C35_Witness ==
    \E w, v \in Workers :
        /\ RowWritten(w) /\ job[w].returncode = -1 /\ job[w].row = "success"
        /\ RowWritten(v) /\ job[v].returncode = 0 /\ job[v].row = "crashed"

KnownWithUnits(d) == {sys \in ALL_BUILD_SYSTEMS : Units(d, sys) # {}}
OtherSystems(d) == DOMAIN d.packages_per_system \ ALL_BUILD_SYSTEMS
\* The record of the last dispatch counts the units of the other
\* architectures under their architecture.
RecordCountsOthers(d) ==
    /\ Len(dispatched_rows) >= 1
    /\ LastRow.pull_request_number = d.pr
    /\ \A k \in OtherSystems(d) :
           /\ k \in DOMAIN LastRow.num_packages
           /\ LastRow.num_packages[k] = Cardinality(d.packages_per_system[k])

\* C36 as stated: messages go to the queues of the two known architectures
\* only, units of another architecture cause no message, and every
\* dispatched evaluation, also one without units for the known
\* architectures, has its record with the counts of all architectures.
C36_Original ==
    /\ DOMAIN sqs_queues.q = ALL_BUILD_SYSTEMS
    /\ last_dispatch.resolved =>
           /\ last_dispatch.checked \subseteq KnownWithUnits(last_dispatch)
           /\ RecordCountsOthers(last_dispatch)

\* C36 amended: there are queues for aarch64-linux and x86_64-linux only, and
\* a dispatch sends to the queue of such an architecture exactly when the
\* evaluation has units for that architecture: units listed for another
\* architecture cause no message, yet the record of the dispatch, written
\* when there is a database connection, counts them under their
\* architecture. An evaluation without units for the two known architectures
\* gets no message, and its record when there is a database connection.
C36_KnownQueuesOnly ==
    /\ DOMAIN sqs_queues.q = ALL_BUILD_SYSTEMS
    /\ last_dispatch.resolved =>
           LET d == last_dispatch
           IN  /\ d.checked = IF sqs_queues.none THEN {} ELSE KnownWithUnits(d)
               /\ d.n = 1 =>
                      \A sys \in ALL_BUILD_SYSTEMS :
                          Len(sqs_queues.q[sys]) = IF sys \in d.checked THEN 1 ELSE 0
               /\ IF conn THEN RecordCountsOthers(d) ELSE dispatched_rows = <<>>
\* The first evaluation lists a unit for x86_64-darwin only: one record with
\* that count, both queues empty.
C36_Witness ==
    /\ last_dispatch.resolved /\ last_dispatch.n = 1
    /\ conn /\ ~sqs_queues.none
    /\ DOMAIN last_dispatch.packages_per_system = {"x86_64-darwin"}
    /\ Len(dispatched_rows) = 1
    /\ dispatched_rows[1].num_packages["x86_64-darwin"] = 1
    /\ \A sys \in ALL_BUILD_SYSTEMS : sqs_queues.q[sys] = <<>>

\* C37: is_blocked, with its reading of the comments (first post or edit),
\* answers before the lock is asked for, whoever holds the lock then, and is
\* not asked again: the lock is held for the post-result call and its settle
\* delay only, a publisher that waits for the lock or holds it keeps its
\* answer and goes on to post with it, and several publishers of one
\* proposal can all have the answer "first post, not blocked" with none of
\* them having posted.
Answered_NotBlocked(p) == pub[p].blocked = "False" /\ pub[p].first_build \in {"first", "edit"}
C37_DecisionOutsideLock ==
    \A p \in Publishers :
        /\ locks[LockKey(p)] = p <=> pub[p].pc \in {"post", "sleep"}
        /\ pub[p].pc \in {"acquire", "post", "sleep"} =>
               /\ Answered_NotBlocked(p)
               /\ \A d \in Decisions : ~ENABLED PublishGate(p, d)
        /\ pub[p].pc = "gate" =>
               /\ locks[LockKey(p)] # p /\ pub[p].blocked = "pending"
               /\ \A d \in Decisions :
                      ENABLED (PublishGate(p, d) /\ locks' = locks
                                   /\ pub'[p].first_build = d.first_build)
        /\ (pub[p].pc = "acquire" /\ locks[LockKey(p)] = NoHolder) =>
               ENABLED (AcquireLock(p) /\ pub'[p].first_build = pub[p].first_build
                            /\ pub'[p].pc = "post")
        /\ pub[p].pc = "post" =>
               ENABLED (PostResult(p) /\ pub'[p].first_build = pub[p].first_build
                            /\ pub'[p].posted)
\* Two publishers of one proposal both answered "first post, not blocked";
\* neither has posted, nobody holds the lock.
C37_Witness ==
    \E p, q \in Publishers :
        /\ p # q /\ pub[p].pr = pub[q].pr
        /\ pub[p].pc = "acquire" /\ pub[q].pc = "acquire"
        /\ pub[p].first_build = "first" /\ pub[q].first_build = "first"
        /\ pub[p].blocked = "False" /\ pub[q].blocked = "False"
        /\ \A r \in Publishers : ~pub[r].posted
        /\ locks[LockKey(p)] = NoHolder

\* A message that was received and never handed to a build: its body was not
\* json.
Undecoded(m) == receives[m] = 1 /\ builds[m] = 0 /\ HandedTo(m) = {}

\* C38: a poll that returns a message whose body json.loads cannot decode
\* deletes the message, starts no build and ends the worker with the error:
\* the worker neither polls again nor builds, the message is on no queue.
C38_UndecodableEndsWorker ==
    \A m \in Msgs :
        /\ (Receivable(m) /\ ~msg_body[m].ok) =>
               \A w \in Workers :
                   pc[w] = "poll" =>
                       /\ ENABLED (PollMessage(w, m) /\ msg_status'[m] = "deleted"
                                       /\ deletes'[m] = deletes[m] + 1
                                       /\ pc'[w] = "crashed" /\ builds' = builds
                                       /\ cur'[w] = NoJob)
                       /\ ~ENABLED (PollMessage(w, m) /\ pc'[w] # "crashed")
        /\ Undecoded(m) =>
               /\ msg_status[m] = "deleted" /\ deletes[m] = 1
               /\ \E w \in Workers :
                      /\ pc[w] = "crashed" /\ last_poll[w].count = 1 /\ cur[w] = NoJob
                      /\ ~CanPoll(w) /\ ~ENABLED StartBuild(w)
\* A worker ended by an undecodable message, which is deleted and unbuilt,
\* while the other worker is still at its poll.
C38_Witness ==
    \E w, v \in Workers, m \in Msgs :
        /\ Undecoded(m) /\ msg_status[m] = "deleted"
        /\ pc[w] = "crashed" /\ last_poll[w].count = 1 /\ cur[w] = NoJob
        /\ pc[v] = "poll"

\* The statuses the for loop looked at: a prefix of the list.
Examined == SubSeq(res_seen.rjson, 1, res_seen.examined)

\* C39: the status list is gone through in list order and the resolver
\* returns at the first status that is the evaluator's success or the failure
\* with the fixed description: no status before it is one of the two, it
\* alone makes the result (with a success and a failure both on the list, the
\* earlier one), and the statuses after it are not looked at; a list without
\* such a status is looked at to its end and nothing is returned.
C39_FirstMarkerReturns ==
    (res_pc \in {"returned", "sleep"} /\ res_seen.fetched) =>
        LET n == res_seen.examined
            rjson == res_seen.rjson
        IN  /\ n <= Len(rjson)
            /\ \A j \in 1..(n - 1) : ~Decisive(rjson[j])
            /\ IF res_pc = "returned"
               THEN /\ n >= 1 /\ Decisive(rjson[n])
                    /\ Scan(Examined, 1) = Scan(rjson, 1)
                    /\ res_seen.verdict =
                           IF IsOfborgFailure(rjson[n]) THEN "failure"
                           ELSE IF rjson[n].target_url = "" THEN "no packages"
                           ELSE "success"
                    /\ res_result.none <=> res_seen.verdict # "success"
                    /\ ~res_result.none => res_result.url = rjson[n].target_url
               ELSE /\ n = Len(rjson)
                    /\ res_seen.verdict = "waiting" /\ res_result.none
\* A success status with a target in front of a failure status: the
\* evaluation is returned, the failure status was not looked at.
C39_Witness ==
    /\ Returned /\ res_seen.fetched /\ ~res_result.none
    /\ Len(res_seen.rjson) = 2 /\ res_seen.examined = 1
    /\ IsOfborgSuccess(res_seen.rjson[1]) /\ res_seen.rjson[1].target_url = "gist"
    /\ IsOfborgFailure(res_seen.rjson[2])

\* A worker with a seeded proposal in hand.
SeedJob(w) == cur[w] # NoJob /\ cur[w].msg = NoMsg
NeverPolled(w) == last_poll[w] = NoPoll /\ last_sqs_message[w] = NoTime /\ pc[w] # "poll"

\* C40: the seeded proposals are handed to the build from the front of the
\* list, one at a time and with no evaluation url, and as long as one is left
\* or in hand the worker has not polled. In dry-run the worker never polls
\* and never asks for deprovisioning, and with the seeds built its source
\* returns and the worker is finished; outside dry-run the polling loop
\* starts then.
C40_SeedsFirst ==
    \A w \in Workers :
        /\ SeedJob(w) =>
               /\ cur[w].ofborg_url = None
               /\ \E k \in DOMAIN SeedRun :
                      /\ cur[w].pr = SeedRun[k]
                      /\ seed_prs[w] = SubSeq(SeedRun, k + 1, Len(SeedRun))
        /\ (SeedJob(w) \/ seed_prs[w] # <<>>) => NeverPolled(w)
        /\ (pc[w] = "source" /\ seed_prs[w] # <<>>) =>
               /\ ENABLED (YieldSeed(w) /\ cur'[w].pr = Head(seed_prs[w])
                               /\ seed_prs'[w] = Tail(seed_prs[w]))
               /\ ~ENABLED StartIterSqs(w) /\ ~ENABLED SourceReturn(w)
        /\ (pc[w] = "gc" /\ SeedJob(w)) =>
               ENABLED (CollectGarbage(w, TRUE) /\ pc'[w] = "source")
        /\ (pc[w] = "source" /\ seed_prs[w] = <<>>) =>
               IF dry_run
               THEN ENABLED (SourceReturn(w) /\ pc'[w] = "finished") /\ ~ENABLED StartIterSqs(w)
               ELSE ENABLED (StartIterSqs(w) /\ pc'[w] = "poll") /\ ~ENABLED SourceReturn(w)
        /\ dry_run => (NeverPolled(w) /\ ~CanPoll(w) /\ ~last_poll[w].deprovisioned)
        /\ pc[w] = "finished" =>
               /\ dry_run /\ seed_prs[w] = <<>> /\ cur[w] = NoJob
               /\ ~ENABLED YieldSeed(w) /\ ~ENABLED StartBuild(w) /\ ~ENABLED Kill(w)
\* Dry-run: one worker has built both seeds and is finished without a poll,
\* the other has the second seed in its build.
C40_Witness ==
    \E w, v \in Workers :
        /\ dry_run
        /\ pc[w] = "finished" /\ NeverPolled(w)
        /\ pc[v] = "supervise" /\ cur[v].pr = SeedPr + 1 /\ seed_prs[v] = <<>>

====
